---- MODULE Spec2Model ----
(***************************************************************************)
(* A model of the InnoDB leaf-page visualizer's engine (src/types.ts):     *)
(* the page arena with its two doubly linked leaf chains (PRIMARY and      *)
(* SECONDARY), insertRecord with its page splits, and the step sequences   *)
(* produced by simulateSelectQuery.                                        *)
(*                                                                         *)
(* Representation.                                                         *)
(*  - A JS array is a TLA+ sequence (1-based); Array.find / findIndex      *)
(*    return the position of the first match, 0 standing for "undefined"   *)
(*    (find) and for -1 (findIndex).                                       *)
(*  - null (nextPageId, prevPageId) and undefined (targetRecordId) are     *)
(*    Null; page ids and record ids of the model are >= 1.                 *)
(*  - The optional display flags (isDirty, isSplitting, isHighlighted,     *)
(*    isNew) are only ever read for truthiness: undefined is FALSE.        *)
(*  - A record value is one of the names of generateRandomData, written    *)
(*    as its position in that list.  The list is in alphabetical order,    *)
(*    so localeCompare on two of its names is the sign of the difference   *)
(*    of their positions.                                                  *)
(*  - A log entry keeps its type and its message (the message as its       *)
(*    template plus the interpolated values); the random entry id and the  *)
(*    timestamp are left out.                                              *)
(*  - lastCall is a history variable: the call that returned the current   *)
(*    engine state, with its arguments and the page counter of the state   *)
(*    it was applied to.                                                   *)
(*                                                                         *)
(* The step player of the App component (src/services/gemini.ts).          *)
(*  - A handler or timer callback, the render that follows its state       *)
(*    updates and the effect run of that render (cleanup of the previous   *)
(*    run, then the new run) are one step.                                 *)
(*  - Time passes in ticks of 200 ms.  A timer is the number of ticks      *)
(*    until it is due, NoTimer when none is pending; a due timer fires     *)
(*    before the next tick.  The timer of the player effect is stepTimer   *)
(*    (cleared by the effect's cleanup); finishTimer and clearTimer are    *)
(*    the nested timeouts of the last step, which nothing clears.          *)
(*  - simMessage is the text of the panel and the number of " [DONE]"      *)
(*    suffixes appended to it.                                             *)
(*  - sim is a history variable: the length of the simulation started      *)
(*    last, the number of its steps applied so far, and whether an insert  *)
(*    or a reset has happened since it was started.                        *)
(***************************************************************************)
EXTENDS Integers, Sequences, FiniteSets

\* ---------------------------------------------------------------- bounds
\* ids offered to insertRecord under Spec are 1..MaxId
MaxId == 2
\* values (names) offered to insertRecord under Spec are 1..MaxVal
MaxVal == 2
\* number of insertRecord calls on one engine under Spec
MaxInserts == 7
\* ids offered under SpecRows are 1..MaxRow, row i being (i, name i)
MaxRow == 7
\* ids offered under SpecRepeat are 1..MaxRepeatRow
MaxRepeatRow == 5
\* number of calls under SpecRepeat that repeat an id already inserted
MaxRepeats == 1
\* number of insertRecord calls on one engine under SpecRepeat
MaxRepeatInserts == 6
\* ids offered under SpecQuery are 1..MaxQueryRow, row i being (i, name i)
MaxQueryRow == 6
\* ids offered under SpecDup are 1..MaxDupRow
MaxDupRow == 3
\* number of insertRecord calls on one engine under SpecDup
MaxDupInserts == 7
\* ids offered under SpecUI are 1..MaxUiRow, row i being (i, name i)
MaxUiRow == 1
\* number of insertRecord calls on one engine under SpecUI
MaxUiInserts == 1
\* ids offered under SpecLog are 1..MaxLogRow
MaxLogRow == 3
\* number of insertRecord calls on one engine under SpecLog
MaxLogInserts == 27

\* ------------------------------------------------------- program constants
PAGE_CAPACITY == 4
\* logs.slice(0, 49): the entries kept behind a new one
LogKeep == 49
\* the number of names in generateRandomData
NumNames == 9
Null == 0
\* setTimeout(..., 1200) of the player effect, in ticks
StepDelay == 6
\* setTimeout(..., 1000) behind the last step, in ticks
FinishDelay == 5
\* setTimeout(..., 2000) behind the finish, in ticks
ClearDelay == 10
\* no timeout pending
NoTimer == -1

VARIABLES pages, logs, pageCounter, lastCall, simSteps, currentStepIndex, simMessage, stepTimer, finishTimer, clearTimer, sim

vars == <<pages, logs, pageCounter, lastCall, simSteps, currentStepIndex, simMessage, stepTimer, finishTimer, clearTimer, sim>>

\* ---------------------------------------------------------------- JS helpers
Min(a, b) == IF a <= b THEN a ELSE b

\* Array.prototype.slice(from) / slice(0, to) with 0-based bounds
SliceTo(s, to) == SubSeq(s, 1, Min(Len(s), to))
\* mutant: the slice starts one element late
SliceFrom_SkipOne(s, from) == SubSeq(s, from + 2, Len(s))

SliceFrom(s, from) == SubSeq(s, from + 1, Len(s))

\* Array.prototype.findIndex / find: hits[i] tells whether the callback holds
\* of element i; the position of the first hit, 0 when there is none
FindIndex(hits) ==
    IF \E i \in 1..Len(hits) : hits[i]
    THEN CHOOSE i \in 1..Len(hits) : hits[i] /\ \A j \in 1..(i - 1) : ~hits[j]
    ELSE 0

\* String.prototype.localeCompare on two names of the list
localeCompare(a, b) == IF a < b THEN -1 ELSE IF a > b THEN 1 ELSE 0

\* (a, b) => a.id - b.id
PrimaryCompare(a, b) == a.id - b.id

\* mutant: equal values are not told apart by id
SecondaryCompare_NoTieBreak(a, b) == localeCompare(a.value, b.value)

\* (a, b) => a.value.localeCompare(b.value) || a.id - b.id
SecondaryCompare(a, b) ==
    IF localeCompare(a.value, b.value) # 0
    THEN localeCompare(a.value, b.value)
    ELSE a.id - b.id

\* the compareFn insertRecord hands to insertIntoIndex for each index
CompareFn(indexType, a, b) ==
    IF indexType = "PRIMARY" THEN PrimaryCompare(a, b) ELSE SecondaryCompare(a, b)

\* Array.prototype.sort(compareFn), a stable sort: each element is placed
\* behind the elements already placed that do not compare greater than it
RECURSIVE SortInsert(_, _, _)
SortInsert(sorted, r, indexType) ==
    IF sorted = <<>> THEN <<r>>
    ELSE IF CompareFn(indexType, sorted[Len(sorted)], r) > 0
         THEN Append(SortInsert(SubSeq(sorted, 1, Len(sorted) - 1), r, indexType),
                     sorted[Len(sorted)])
         ELSE Append(sorted, r)

\* mutant: the page is not re-sorted after the append
Sort_Unsorted(s, indexType) == s

RECURSIVE Sort(_, _)
Sort(s, indexType) ==
    IF s = <<>> THEN <<>>
    ELSE SortInsert(Sort(SubSeq(s, 1, Len(s) - 1), indexType), s[Len(s)], indexType)

\* ---------------------------------------------------------------- helpers
\* mutant: the type argument is ignored
createPage_AlwaysPrimary(id, type) ==
    [id |-> id, indexType |-> "PRIMARY", records |-> <<>>,
     nextPageId |-> Null, prevPageId |-> Null,
     isDirty |-> FALSE, isSplitting |-> FALSE, isHighlighted |-> FALSE]

createPage(id, type) ==
    [id |-> id, indexType |-> type, records |-> <<>>,
     nextPageId |-> Null, prevPageId |-> Null,
     isDirty |-> FALSE, isSplitting |-> FALSE, isHighlighted |-> FALSE]

\* mutant: the older entries are kept without the slice
addLog_KeepAll(logBuffer, message, type) ==
    <<[message |-> message, type |-> type]>> \o logBuffer

addLog(logBuffer, message, type) ==
    <<[message |-> message, type |-> type]>> \o SliceTo(logBuffer, LogKeep)

\* the messages of the log, as template and interpolated values
MsgInit == [text |-> "Engine Initialized", indexType |-> "", a |-> 0, b |-> 0]
MsgDuplicate(id) == [text |-> "Duplicate Key Error", indexType |-> "", a |-> id, b |-> 0]
MsgSplitting(indexType, pageId) ==
    [text |-> "Page full. Splitting", indexType |-> indexType, a |-> pageId, b |-> 0]
MsgSplitComplete(indexType, pageId, newPageId) ==
    [text |-> "Split Complete", indexType |-> indexType, a |-> pageId, b |-> newPageId]
MsgCommitted(id, value) ==
    [text |-> "Transaction Committed", indexType |-> "", a |-> id, b |-> value]

\* ---------------------------------------------------------------- core logic
initializeEngine ==
    [pages |-> <<createPage(1, "PRIMARY"), createPage(2, "SECONDARY")>>,
     logs |-> addLog(<<>>, MsgInit, "success"),
     pageCounter |-> 2]

\* step 1 of insertIntoIndex: the head of the chain of indexType, as a
\* position in currentPages (0: the index has no page)
FindHead(currentPages, indexType) ==
    LET byPrev == FindIndex([i \in 1..Len(currentPages) |->
                      /\ currentPages[i].indexType = indexType
                      /\ currentPages[i].prevPageId = Null])
        first == FindIndex([i \in 1..Len(currentPages) |->
                      currentPages[i].indexType = indexType])
    IN IF byPrev # 0 THEN byPrev ELSE first

\* mutant: the look-ahead stops at a next page whose first record compares
\* greater than or equal to the new record
RECURSIVE FindTarget_Geq(_, _, _, _)
FindTarget_Geq(currentPages, current, record, indexType) ==
    IF current = 0 THEN -1
    ELSE IF currentPages[current].nextPageId = Null THEN currentPages[current].id
    ELSE LET nextPage == FindIndex([i \in 1..Len(currentPages) |->
                             currentPages[i].id = currentPages[current].nextPageId])
         IN IF /\ nextPage # 0
               /\ Len(currentPages[nextPage].records) > 0
               /\ CompareFn(indexType, currentPages[nextPage].records[1], record) >= 0
            THEN currentPages[current].id
            ELSE FindTarget_Geq(currentPages, nextPage, record, indexType)

\* the while loop of insertIntoIndex: the id of the target page, -1 when
\* the walk runs off the chain
RECURSIVE FindTarget(_, _, _, _)
FindTarget(currentPages, current, record, indexType) ==
    IF current = 0 THEN -1
    ELSE IF currentPages[current].nextPageId = Null THEN currentPages[current].id
    ELSE LET nextPage == FindIndex([i \in 1..Len(currentPages) |->
                             currentPages[i].id = currentPages[current].nextPageId])
         IN IF /\ nextPage # 0
               /\ Len(currentPages[nextPage].records) > 0
               /\ CompareFn(indexType, currentPages[nextPage].records[1], record) > 0
            THEN currentPages[current].id
            ELSE FindTarget(currentPages, nextPage, record, indexType)

\* mutant: Math.floor in place of Math.ceil
SplitIndex_Floor(n) == n \div 2

\* splitIndex = Math.ceil(updatedRecords.length / 2)
SplitIndex(n) == (n + 1) \div 2

\* mutant: the counter is not incremented before it names the new page
NewPageId_NoIncrement(counter) == counter

\* counter++; const newPageId = counter
NewPageId(counter) == counter + 1

\* mutant: the split comes one record late
NeedsSplit_Late(updatedRecords) == Len(updatedRecords) > PAGE_CAPACITY + 1

\* updatedRecords.length > PAGE_CAPACITY
NeedsSplit(updatedRecords) == Len(updatedRecords) > PAGE_CAPACITY

\* mutant: a duplicate is a record with the same id and the same value
IsDuplicate_SameRow(indexType, targetPage, record) ==
    /\ indexType = "PRIMARY"
    /\ \E i \in 1..Len(targetPage.records) :
          /\ targetPage.records[i].id = record.id
          /\ targetPage.records[i].value = record.value

\* indexType === 'PRIMARY' && targetPage.records.some(r => r.id === record.id)
IsDuplicate(indexType, targetPage, record) ==
    /\ indexType = "PRIMARY"
    /\ \E i \in 1..Len(targetPage.records) : targetPage.records[i].id = record.id

\* mutant: the page behind the new page keeps its old prevPageId
SplitPage_NoBackLink(currentPages, pageIndex, targetPage, updatedRecords, indexType, newPageId) ==
    LET splitIndex == (Len(updatedRecords) + 1) \div 2
        old == [currentPages[pageIndex] EXCEPT
                    !.records = SubSeq(updatedRecords, 1, splitIndex),
                    !.isSplitting = TRUE,
                    !.nextPageId = newPageId]
        newPage == [createPage(newPageId, indexType) EXCEPT
                    !.records = SubSeq(updatedRecords, splitIndex + 1, Len(updatedRecords)),
                    !.nextPageId = targetPage.nextPageId,
                    !.prevPageId = targetPage.id,
                    !.isDirty = TRUE]
    IN Append([currentPages EXCEPT ![pageIndex] = old], newPage)

\* mutant: the new page is not given its prevPageId
SplitPage_NoPrev(currentPages, pageIndex, targetPage, updatedRecords, indexType, newPageId) ==
    LET splitIndex == (Len(updatedRecords) + 1) \div 2
        old == [currentPages[pageIndex] EXCEPT
                    !.records = SubSeq(updatedRecords, 1, splitIndex),
                    !.isSplitting = TRUE,
                    !.nextPageId = newPageId]
        newPage == [createPage(newPageId, indexType) EXCEPT
                    !.records = SubSeq(updatedRecords, splitIndex + 1, Len(updatedRecords)),
                    !.nextPageId = targetPage.nextPageId,
                    !.isDirty = TRUE]
        withOld == [currentPages EXCEPT ![pageIndex] = old]
        relinked ==
            IF \E i \in 1..Len(withOld) : withOld[i].id = targetPage.nextPageId
            THEN [i \in 1..Len(withOld) |->
                    IF withOld[i].id = targetPage.nextPageId
                    THEN [withOld[i] EXCEPT !.prevPageId = newPageId]
                    ELSE withOld[i]]
            ELSE withOld
    IN Append(relinked, newPage)

\* step 3 of insertIntoIndex: the split of the page at pageIndex, which holds
\* updatedRecords; targetPage is the page as it was before the insertion
SplitPage(currentPages, pageIndex, targetPage, updatedRecords, indexType, newPageId) ==
    LET splitIndex == SplitIndex(Len(updatedRecords))
        keepRecords == SliceTo(updatedRecords, splitIndex)
        moveRecords == SliceFrom(updatedRecords, splitIndex)
        old == [currentPages[pageIndex] EXCEPT !.records = keepRecords,
                                               !.isSplitting = TRUE,
                                               !.nextPageId = newPageId]
        newPage == [createPage(newPageId, indexType) EXCEPT
                                               !.records = moveRecords,
                                               !.nextPageId = targetPage.nextPageId,
                                               !.prevPageId = targetPage.id,
                                               !.isDirty = TRUE]
        withOld == [currentPages EXCEPT ![pageIndex] = old]
        nextNextPageIndex ==
            IF targetPage.nextPageId # Null
            THEN FindIndex([i \in 1..Len(withOld) |->
                               withOld[i].id = targetPage.nextPageId])
            ELSE 0
        relinked ==
            IF nextNextPageIndex # 0
            THEN [withOld EXCEPT ![nextNextPageIndex].prevPageId = newPageId]
            ELSE withOld
    IN Append(relinked, newPage)

insertIntoIndex(pagesIn, indexType, record, counterIn, logBuffer) ==
    LET targetPageId ==
            FindTarget(pagesIn, FindHead(pagesIn, indexType), record, indexType)
        unchanged == [pages |-> pagesIn, newPageCounter |-> counterIn, logs |-> logBuffer]
    IN IF targetPageId = -1 THEN unchanged
       ELSE
       LET pageIndex == FindIndex([i \in 1..Len(pagesIn) |->
                                      pagesIn[i].id = targetPageId])
           targetPage == pagesIn[pageIndex]
       IN IF IsDuplicate(indexType, targetPage, record)
          THEN [unchanged EXCEPT
                    !.logs = addLog(logBuffer, MsgDuplicate(record.id), "error")]
          ELSE
          LET updatedRecords == Sort(Append(targetPage.records, record), indexType)
              inserted == [pagesIn EXCEPT ![pageIndex] =
                              [targetPage EXCEPT !.records = updatedRecords,
                                                 !.isDirty = TRUE,
                                                 !.isSplitting = FALSE]]
          IN IF NeedsSplit(updatedRecords)
             THEN LET newPageId == NewPageId(counterIn)
                  IN [pages |-> SplitPage(inserted, pageIndex, targetPage,
                                          updatedRecords, indexType, newPageId),
                      newPageCounter |-> newPageId,
                      logs |-> addLog(addLog(logBuffer,
                                             MsgSplitting(indexType, targetPageId),
                                             "warning"),
                                      MsgSplitComplete(indexType, targetPageId, newPageId),
                                      "success")]
             ELSE [pages |-> inserted, newPageCounter |-> counterIn, logs |-> logBuffer]

\* the "Clean flags" map of insertRecord
CleanFlags(ps) ==
    [i \in 1..Len(ps) |->
        [ps[i] EXCEPT !.isDirty = FALSE, !.isSplitting = FALSE, !.isHighlighted = FALSE,
                      !.records = [j \in 1..Len(ps[i].records) |->
                                      [ps[i].records[j] EXCEPT !.isNew = FALSE,
                                                               !.isHighlighted = FALSE]]]]

\* the record literal { id, value, isNew: true }
NewRecord(id, value) ==
    [id |-> id, value |-> value, isNew |-> TRUE, isHighlighted |-> FALSE]

\* mutant: the SECONDARY index is processed before the PRIMARY index
insertRecord_SecondaryFirst(state, id, value) ==
    LET cleaned == CleanFlags(state.pages)
        secondaryResult == insertIntoIndex(cleaned, "SECONDARY", NewRecord(id, value),
                                           state.pageCounter, state.logs)
        primaryResult == insertIntoIndex(secondaryResult.pages, "PRIMARY",
                                         NewRecord(id, value),
                                         secondaryResult.newPageCounter,
                                         state.logs)
    IN [pages |-> primaryResult.pages,
        logs |-> addLog(primaryResult.logs, MsgCommitted(id, value), "info"),
        pageCounter |-> primaryResult.newPageCounter]

\* mutant: a call whose id is rejected returns before the commit entry
insertRecord_NoCommitOnDuplicate(state, id, value) ==
    LET cleaned == CleanFlags(state.pages)
        primaryResult == insertIntoIndex(cleaned, "PRIMARY", NewRecord(id, value),
                                         state.pageCounter, state.logs)
        secondaryResult == insertIntoIndex(primaryResult.pages, "SECONDARY",
                                           NewRecord(id, value),
                                           primaryResult.newPageCounter,
                                           primaryResult.logs)
        rejected == /\ Len(primaryResult.logs) > 0
                    /\ primaryResult.logs[1].type = "error"
                    /\ primaryResult.logs # state.logs
    IN [pages |-> secondaryResult.pages,
        logs |-> IF rejected THEN primaryResult.logs
                 ELSE addLog(primaryResult.logs, MsgCommitted(id, value), "info"),
        pageCounter |-> secondaryResult.newPageCounter]

\* mutant: the secondary insertion gets the page counter of the state, not the
\* one the primary insertion returned
insertRecord_StaleCounter(state, id, value) ==
    LET cleaned == CleanFlags(state.pages)
        primaryResult == insertIntoIndex(cleaned, "PRIMARY", NewRecord(id, value),
                                         state.pageCounter, state.logs)
        secondaryResult == insertIntoIndex(primaryResult.pages, "SECONDARY",
                                           NewRecord(id, value),
                                           state.pageCounter,
                                           primaryResult.logs)
    IN [pages |-> secondaryResult.pages,
        logs |-> addLog(primaryResult.logs, MsgCommitted(id, value), "info"),
        pageCounter |-> secondaryResult.newPageCounter]

\* mutant: the secondary insertion gets the cleaned pages of the state, not the
\* pages the primary insertion returned
insertRecord_PrimaryPagesDropped(state, id, value) ==
    LET cleaned == CleanFlags(state.pages)
        primaryResult == insertIntoIndex(cleaned, "PRIMARY", NewRecord(id, value),
                                         state.pageCounter, state.logs)
        secondaryResult == insertIntoIndex(cleaned, "SECONDARY",
                                           NewRecord(id, value),
                                           primaryResult.newPageCounter,
                                           primaryResult.logs)
    IN [pages |-> secondaryResult.pages,
        logs |-> addLog(primaryResult.logs, MsgCommitted(id, value), "info"),
        pageCounter |-> secondaryResult.newPageCounter]

insertRecord(state, id, value) ==
    LET cleaned == CleanFlags(state.pages)
        primaryResult == insertIntoIndex(cleaned, "PRIMARY", NewRecord(id, value),
                                         state.pageCounter, state.logs)
        secondaryResult == insertIntoIndex(primaryResult.pages, "SECONDARY",
                                           NewRecord(id, value),
                                           primaryResult.newPageCounter,
                                           primaryResult.logs)
    IN [pages |-> secondaryResult.pages,
        \* logs was last assigned from primaryResult: the entries of the
        \* secondary insertion are not in the returned log
        logs |-> addLog(primaryResult.logs, MsgCommitted(id, value), "info"),
        pageCounter |-> secondaryResult.newPageCounter]

resetEngine == initializeEngine

\* ---------------------------------------------------------------- query simulation
\* addStep: stepId is the number of steps pushed before this one
addStep(steps, msg, pageId, type, recordId) ==
    Append(steps, [stepId |-> Len(steps), message |-> msg, targetPageId |-> pageId,
                   type |-> type, targetRecordId |-> recordId])

\* pages.find(p => p.indexType === indexType && p.prevPageId === null)
ChainHead(ps, indexType) ==
    FindIndex([i \in 1..Len(ps) |->
                  ps[i].indexType = indexType /\ ps[i].prevPageId = Null])

\* pages.find(p => p.id === pageId)
PageById(ps, pageId) == FindIndex([i \in 1..Len(ps) |-> ps[i].id = pageId])

\* mutant: only the first record of the page is compared
RecordById_FirstOnly(page, id) ==
    IF Len(page.records) > 0 /\ page.records[1].id = id THEN 1 ELSE 0

\* current.records.find(r => r.id === id), as a position in the page
RecordById(page, id) ==
    FindIndex([j \in 1..Len(page.records) |-> page.records[j].id = id])

\* mutant: the last record with the name, not the first
RecordByName_Last(page, name) ==
    IF \E j \in 1..Len(page.records) : page.records[j].value = name
    THEN CHOOSE j \in 1..Len(page.records) :
            /\ page.records[j].value = name
            /\ \A k \in (j + 1)..Len(page.records) : page.records[k].value # name
    ELSE 0

\* current.records.find(r => r.value === name), as a position in the page
RecordByName(page, name) ==
    FindIndex([j \in 1..Len(page.records) |-> page.records[j].value = name])

\* mutant: the range check is reversed
MaxIdBelow_Reversed(page, id) ==
    /\ Len(page.records) > 0
    /\ page.records[Len(page.records)].id > id

\* maxId < id, maxId being undefined on a page without records
MaxIdBelow(page, id) ==
    /\ Len(page.records) > 0
    /\ page.records[Len(page.records)].id < id

\* mutant: the loop does not return at FOUND_DATA, it only leaves the loop
RECURSIVE ByIdWalk_NoReturn(_, _, _, _)
ByIdWalk_NoReturn(ps, current, id, steps) ==
    IF current = 0 THEN [steps |-> steps, returned |-> FALSE]
    ELSE
    LET page == ps[current]
        scanned == addStep(steps, "Scanning Primary Page", page.id, "SCAN_PAGE", Null)
    IN IF RecordById(page, id) # 0
       THEN [steps |-> addStep(scanned, "Found Record. Returning Data", page.id,
                               "FOUND_DATA", id),
             returned |-> FALSE]
       ELSE IF page.nextPageId # Null /\ MaxIdBelow(page, id)
            THEN ByIdWalk_NoReturn(ps, PageById(ps, page.nextPageId), id, scanned)
            ELSE [steps |-> scanned, returned |-> FALSE]

\* mutant: the loop advances whenever there is a next page, without the range
\* check
RECURSIVE ByIdWalk_NoRangeCheck(_, _, _, _)
ByIdWalk_NoRangeCheck(ps, current, id, steps) ==
    IF current = 0 THEN [steps |-> steps, returned |-> FALSE]
    ELSE
    LET page == ps[current]
        scanned == addStep(steps, "Scanning Primary Page", page.id, "SCAN_PAGE", Null)
    IN IF RecordById(page, id) # 0
       THEN [steps |-> addStep(scanned, "Found Record. Returning Data", page.id,
                               "FOUND_DATA", id),
             returned |-> TRUE]
       ELSE IF page.nextPageId # Null
            THEN ByIdWalk_NoRangeCheck(ps, PageById(ps, page.nextPageId), id, scanned)
            ELSE [steps |-> scanned, returned |-> FALSE]

\* the while loop of BY_ID; returned: the function returned from inside the
\* loop (FOUND_DATA), so that nothing is pushed behind it
RECURSIVE ByIdWalk(_, _, _, _)
ByIdWalk(ps, current, id, steps) ==
    IF current = 0 THEN [steps |-> steps, returned |-> FALSE]
    ELSE
    LET page == ps[current]
        scanned == addStep(steps, "Scanning Primary Page", page.id, "SCAN_PAGE", Null)
    IN IF RecordById(page, id) # 0
       THEN [steps |-> addStep(scanned, "Found Record. Returning Data", page.id,
                               "FOUND_DATA", id),
             returned |-> TRUE]
       ELSE IF page.nextPageId # Null /\ MaxIdBelow(page, id)
            THEN ByIdWalk(ps, PageById(ps, page.nextPageId), id, scanned)
            ELSE [steps |-> scanned, returned |-> FALSE]

\* mutant: the walk carries the range check of BY_ID and does not advance
\* behind a page whose last record has an id that is not below the first id
\* of the index
RECURSIVE SecondaryWalk_HeadOnly(_, _, _, _)
SecondaryWalk_HeadOnly(ps, current, name, steps) ==
    IF current = 0 THEN [steps |-> steps, foundPk |-> Null, current |-> 0]
    ELSE
    LET page == ps[current]
        scanned == addStep(steps, "Scanning Secondary Index Page", page.id,
                           "SCAN_PAGE", Null)
        found == RecordByName(page, name)
    IN IF found # 0
       THEN [steps |-> addStep(scanned, "Found Index Entry", page.id,
                               "FOUND_INDEX_ENTRY", page.records[found].id),
             foundPk |-> page.records[found].id,
             current |-> current]
       ELSE IF page.nextPageId # Null /\ MaxIdBelow(page, 1)
            THEN SecondaryWalk_HeadOnly(ps, PageById(ps, page.nextPageId), name, scanned)
            ELSE [steps |-> scanned, foundPk |-> Null, current |-> current]

\* the first while loop of BY_NAME / BY_NAME_COVERING: the steps, foundPk and
\* the page the loop stopped at
RECURSIVE SecondaryWalk(_, _, _, _)
SecondaryWalk(ps, current, name, steps) ==
    IF current = 0 THEN [steps |-> steps, foundPk |-> Null, current |-> 0]
    ELSE
    LET page == ps[current]
        scanned == addStep(steps, "Scanning Secondary Index Page", page.id,
                           "SCAN_PAGE", Null)
        found == RecordByName(page, name)
    IN IF found # 0
       THEN [steps |-> addStep(scanned, "Found Index Entry", page.id,
                               "FOUND_INDEX_ENTRY", page.records[found].id),
             foundPk |-> page.records[found].id,
             current |-> current]
       ELSE IF page.nextPageId # Null
            THEN SecondaryWalk(ps, PageById(ps, page.nextPageId), name, scanned)
            ELSE [steps |-> scanned, foundPk |-> Null, current |-> current]

\* mutant: the scan step is pushed a second time before the loop advances
RECURSIVE TableLookup_Rescan(_, _, _, _)
TableLookup_Rescan(ps, current, foundPk, steps) ==
    IF current = 0 THEN steps
    ELSE
    LET page == ps[current]
        scanned == addStep(steps, "Scanning Primary Page for PK", page.id,
                           "SCAN_PAGE", Null)
    IN IF RecordById(page, foundPk) # 0
       THEN addStep(scanned, "Lookup Successful", page.id, "FOUND_DATA", foundPk)
       ELSE IF page.nextPageId # Null
            THEN TableLookup_Rescan(ps, PageById(ps, page.nextPageId), foundPk,
                                    addStep(scanned, "Scanning Primary Page for PK",
                                            page.id, "SCAN_PAGE", Null))
            ELSE scanned

\* mutant: the lookup starts at the page behind the head
RECURSIVE TableLookup_SkipHead(_, _, _, _)
TableLookup_SkipHead(ps, current, foundPk, steps) ==
    IF current = 0 THEN steps
    ELSE
    LET start == IF steps[Len(steps)].type = "JUMP_TO_PK" /\ ps[current].nextPageId # Null
                 THEN PageById(ps, ps[current].nextPageId)
                 ELSE current
        page == ps[start]
        scanned == addStep(steps, "Scanning Primary Page for PK", page.id,
                           "SCAN_PAGE", Null)
    IN IF RecordById(page, foundPk) # 0
       THEN addStep(scanned, "Lookup Successful", page.id, "FOUND_DATA", foundPk)
       ELSE IF page.nextPageId # Null
            THEN TableLookup_SkipHead(ps, PageById(ps, page.nextPageId), foundPk, scanned)
            ELSE scanned

\* the table lookup loop of BY_NAME
RECURSIVE TableLookup(_, _, _, _)
TableLookup(ps, current, foundPk, steps) ==
    IF current = 0 THEN steps
    ELSE
    LET page == ps[current]
        scanned == addStep(steps, "Scanning Primary Page for PK", page.id,
                           "SCAN_PAGE", Null)
    IN IF RecordById(page, foundPk) # 0
       THEN addStep(scanned, "Lookup Successful", page.id, "FOUND_DATA", foundPk)
       ELSE IF page.nextPageId # Null
            THEN TableLookup(ps, PageById(ps, page.nextPageId), foundPk, scanned)
            ELSE scanned

\* mutant: the not-found step of BY_ID is pushed only when the walk ended on
\* the tail of the chain
simulateSelectQuery_SilentBreak(state, type, param) ==
    LET ps == state.pages
    IN IF type = "BY_ID"
       THEN LET start == addStep(<<>>, "QUERY: SELECT * WHERE id", 0, "FINISHED", Null)
                walk == ByIdWalk(ps, ChainHead(ps, "PRIMARY"), param, start)
                last == walk.steps[Len(walk.steps)]
            IN IF walk.returned THEN walk.steps
               ELSE IF /\ last.type = "SCAN_PAGE"
                       /\ ps[PageById(ps, last.targetPageId)].nextPageId # Null
                    THEN walk.steps
                    ELSE addStep(walk.steps, "Record not found in Primary Index", 0,
                                 "FINISHED", Null)
       ELSE LET isCovering == (type = "BY_NAME_COVERING")
                start == addStep(<<>>,
                                 IF isCovering THEN "QUERY: SELECT id WHERE name"
                                               ELSE "QUERY: SELECT * WHERE name",
                                 0, "FINISHED", Null)
                walk == SecondaryWalk(ps, ChainHead(ps, "SECONDARY"), param, start)
            IN IF walk.foundPk = Null
               THEN addStep(walk.steps, "Name not found in Index", 0, "FINISHED", Null)
               ELSE IF isCovering
                    THEN addStep(walk.steps, "Covering Index optimization",
                                 ps[walk.current].id, "FINISHED", walk.foundPk)
                    ELSE TableLookup(ps, ChainHead(ps, "PRIMARY"), walk.foundPk,
                                     addStep(walk.steps, "Performing Table Lookup",
                                             ps[walk.current].id, "JUMP_TO_PK",
                                             walk.foundPk))

simulateSelectQuery(state, type, param) ==
    LET ps == state.pages
    IN IF type = "BY_ID"
       THEN LET start == addStep(<<>>, "QUERY: SELECT * WHERE id", 0, "FINISHED", Null)
                walk == ByIdWalk(ps, ChainHead(ps, "PRIMARY"), param, start)
            IN IF walk.returned THEN walk.steps
               ELSE addStep(walk.steps, "Record not found in Primary Index", 0,
                            "FINISHED", Null)
       ELSE LET isCovering == (type = "BY_NAME_COVERING")
                start == addStep(<<>>,
                                 IF isCovering THEN "QUERY: SELECT id WHERE name"
                                               ELSE "QUERY: SELECT * WHERE name",
                                 0, "FINISHED", Null)
                walk == SecondaryWalk(ps, ChainHead(ps, "SECONDARY"), param, start)
            IN IF walk.foundPk = Null
               THEN addStep(walk.steps, "Name not found in Index", 0, "FINISHED", Null)
               ELSE IF isCovering
                    THEN addStep(walk.steps, "Covering Index optimization",
                                 ps[walk.current].id, "FINISHED", walk.foundPk)
                    ELSE TableLookup(ps, ChainHead(ps, "PRIMARY"), walk.foundPk,
                                     addStep(walk.steps, "Performing Table Lookup",
                                             ps[walk.current].id, "JUMP_TO_PK",
                                             walk.foundPk))

\* ---------------------------------------------------------------- snapshot projection
\* mutant: a page counts as FULL only when it holds more than 4 records
PageStatus_OverCapacity(page) == IF Len(page.records) > 4 THEN "FULL" ELSE "HAS_SPACE"

\* p.records.length >= 4 ? "FULL" : "HAS_SPACE"
PageStatus(page) == IF Len(page.records) >= 4 THEN "FULL" ELSE "HAS_SPACE"

\* simplePages of analyzeEngineState: the object literal built for every page
simplePages(state) ==
    [i \in 1..Len(state.pages) |->
        [page_id |-> state.pages[i].id,
         records |-> [j \in 1..Len(state.pages[i].records) |->
                         state.pages[i].records[j].id],
         next_page |-> state.pages[i].nextPageId,
         prev_page |-> state.pages[i].prevPageId,
         status |-> PageStatus(state.pages[i])]]

\* ---------------------------------------------------------------- state machine
State == [pages |-> pages, logs |-> logs, pageCounter |-> pageCounter]

Init ==
    /\ pages = initializeEngine.pages
    /\ logs = initializeEngine.logs
    /\ pageCounter = initializeEngine.pageCounter
    /\ lastCall = [op |-> "init", id |-> 0, value |-> 0, pageCounter |-> 0]
    /\ simSteps = <<>>
    /\ currentStepIndex = -1
    /\ simMessage = [text |-> "", done |-> 0]
    /\ stepTimer = NoTimer
    /\ finishTimer = NoTimer
    /\ clearTimer = NoTimer
    /\ sim = [length |-> 0, played |-> 0, stopped |-> FALSE]

\* the records stored in the pages of one index, over all its pages
IndexRecords(ps, indexType) ==
    {<<i, j>> \in (1..Len(ps)) \X (1..(PAGE_CAPACITY + 1)) :
        ps[i].indexType = indexType /\ j <= Len(ps[i].records)}

\* every call adds one SECONDARY record: their number is the number of calls
NumInserts == Cardinality(IndexRecords(pages, "SECONDARY"))

\* the calls that repeated an id are those that added no PRIMARY record
NumRepeats == NumInserts - Cardinality(IndexRecords(pages, "PRIMARY"))

IdStored(id) ==
    \E i \in 1..Len(pages) :
        /\ pages[i].indexType = "PRIMARY"
        /\ \E j \in 1..Len(pages[i].records) : pages[i].records[j].id = id

\* the simulation player effect up to its setTimeout: the timer it leaves
\* pending after a render in which simSteps or currentStepIndex changed
PlayerEffect(steps, index) ==
    IF Len(steps) > 0 /\ index < Len(steps) THEN StepDelay ELSE NoTimer

\* mutant: the simulation is left as it is
InsertRecord_KeepSimulation(id, value) ==
    \E result \in {insertRecord(State, id, value)} :
       /\ pages' = result.pages
       /\ logs' = result.logs
       /\ pageCounter' = result.pageCounter
       /\ lastCall' = [op |-> "insert", id |-> id, value |-> value,
                       pageCounter |-> pageCounter]
       /\ sim' = [sim EXCEPT !.stopped = TRUE]
       /\ UNCHANGED <<simSteps, stepTimer, currentStepIndex, simMessage,
                      finishTimer, clearTimer>>

\* handleInsert: setSimSteps([]); setEngine(prev => insertRecord(prev, id,
\* val)); the ids of the model are numbers and its values are non-empty, so
\* the early return of handleInsert is never taken
InsertRecord(id, value) ==
    \E result \in {insertRecord(State, id, value)} :
       /\ pages' = result.pages
       /\ logs' = result.logs
       /\ pageCounter' = result.pageCounter
       /\ lastCall' = [op |-> "insert", id |-> id, value |-> value,
                       pageCounter |-> pageCounter]
       /\ simSteps' = <<>>
       /\ stepTimer' = PlayerEffect(simSteps', currentStepIndex)
       /\ sim' = [sim EXCEPT !.stopped = TRUE]
       /\ UNCHANGED <<currentStepIndex, simMessage, finishTimer, clearTimer>>

\* mutant: the reset entry is added to the log of the engine that is discarded
ResetEngine_KeepLogs ==
    /\ pages' = resetEngine.pages
    /\ logs' = addLog(logs, MsgInit, "success")
    /\ pageCounter' = resetEngine.pageCounter
    /\ lastCall' = [op |-> "reset", id |-> 0, value |-> 0, pageCounter |-> pageCounter]
    /\ simSteps' = <<>>
    /\ stepTimer' = PlayerEffect(simSteps', currentStepIndex)
    /\ sim' = [sim EXCEPT !.stopped = TRUE]
    /\ UNCHANGED <<currentStepIndex, simMessage, finishTimer, clearTimer>>

\* handleReset: setEngine(resetEngine()); setSimSteps([]); the analysis text,
\* the auto-insert switch and the query inputs it clears are not state of the
\* model
ResetEngine ==
    /\ pages' = resetEngine.pages
    /\ logs' = resetEngine.logs
    /\ pageCounter' = resetEngine.pageCounter
    /\ lastCall' = [op |-> "reset", id |-> 0, value |-> 0, pageCounter |-> pageCounter]
    /\ simSteps' = <<>>
    /\ stepTimer' = PlayerEffect(simSteps', currentStepIndex)
    /\ sim' = [sim EXCEPT !.stopped = TRUE]
    /\ UNCHANGED <<currentStepIndex, simMessage, finishTimer, clearTimer>>

\* any ids and values, ids may repeat with any value
Insert ==
    /\ NumInserts < MaxInserts
    /\ \E id \in 1..MaxId, value \in 1..MaxVal : InsertRecord(id, value)

Next == Insert \/ ResetEngine

Spec == Init /\ [][Next]_vars

\* the rows of a table whose row i is (i, name i), each inserted at most once,
\* in any order: the calls have pairwise distinct ids
NameOf(id) == ((id - 1) % NumNames) + 1

InsertRow ==
    \E id \in 1..MaxRow :
        /\ ~IdStored(id)
        /\ InsertRecord(id, NameOf(id))

NextRows == InsertRow \/ ResetEngine

SpecRows == Init /\ [][NextRows]_vars

\* the rows 1..MaxRepeatRow of the table in any order, with at most MaxRepeats
\* calls that repeat an id; a repeating call carries the next name of the list
RepeatName(id) == NameOf(id + 1)

InsertOrRepeat ==
    /\ NumInserts < MaxRepeatInserts
    /\ \E id \in 1..MaxRepeatRow :
        IF IdStored(id)
        THEN NumRepeats < MaxRepeats /\ InsertRecord(id, RepeatName(id))
        ELSE InsertRecord(id, NameOf(id))

NextRepeat == InsertOrRepeat \/ ResetEngine

SpecRepeat == Init /\ [][NextRepeat]_vars

\* the rows 1..MaxQueryRow of the table, each inserted at most once, in any
\* order: the engines on which every query kind is asked with every parameter
InsertQueryRow ==
    \E id \in 1..MaxQueryRow :
        /\ ~IdStored(id)
        /\ InsertRecord(id, NameOf(id))

NextQuery == InsertQueryRow \/ ResetEngine

SpecQuery == Init /\ [][NextQuery]_vars

\* a table in which two ids share each name: rows (1, name 1), (2, name 1),
\* (3, name 2), (4, name 2), ...; any row in any call, so that calls repeat a
\* value and repeat a whole (id, value) pair
DupName(id) == NameOf((id + 1) \div 2)

InsertDup ==
    /\ NumInserts < MaxDupInserts
    /\ \E id \in 1..MaxDupRow : InsertRecord(id, DupName(id))

NextDup == InsertDup \/ ResetEngine

SpecDup == Init /\ [][NextDup]_vars

\* ---------------------------------------------------------------- step player
\* pages.map(p => ({...p, isHighlighted: false, records: p.records.map(r =>
\* ({...r, isHighlighted: false}))}))
ClearHighlights(ps) ==
    [i \in 1..Len(ps) |->
        [ps[i] EXCEPT !.isHighlighted = FALSE,
                      !.records = [j \in 1..Len(ps[i].records) |->
                                      [ps[i].records[j] EXCEPT !.isHighlighted = FALSE]]]]

\* the setEngine of applySimulationStep: the target page and, on it, the
\* target record are highlighted, every other page and record is not
ApplyHighlights(ps, step) ==
    [i \in 1..Len(ps) |->
        [ps[i] EXCEPT !.isHighlighted = (ps[i].id = step.targetPageId),
                      !.records = [j \in 1..Len(ps[i].records) |->
                                      [ps[i].records[j] EXCEPT !.isHighlighted =
                                          /\ ps[i].id = step.targetPageId
                                          /\ step.targetRecordId = ps[i].records[j].id]]]]

\* the history of an action of the player that is no engine call
PlayerCall(op) == [op |-> op, id |-> 0, value |-> 0, pageCounter |-> pageCounter]

\* runQuery: the highlights are cleared; with an empty input nothing else
\* happens; otherwise the steps are computed on the engine of the render and
\* the player is started at step 0
RunQuery(type, typed, param) ==
    /\ pages' = ClearHighlights(pages)
    /\ lastCall' = PlayerCall("query")
    /\ UNCHANGED <<logs, pageCounter, simMessage, finishTimer, clearTimer>>
    /\ IF ~typed
       THEN UNCHANGED <<simSteps, currentStepIndex, stepTimer, sim>>
       ELSE /\ simSteps' = simulateSelectQuery(State, type, param)
            /\ currentStepIndex' = 0
            /\ stepTimer' = PlayerEffect(simSteps', currentStepIndex')
            /\ sim' = [length |-> Len(simSteps'), played |-> 0, stopped |-> FALSE]

\* the callback of the player effect's timeout: the step at currentStepIndex
\* is applied; behind a step that is not the last the index moves on and the
\* effect sets the next timeout, behind the last step the finish timeout is
\* set
StepTimerFires ==
    /\ stepTimer = 0
    /\ \E step \in {simSteps[currentStepIndex + 1]} :
          /\ simMessage' = [text |-> step.message, done |-> 0]
          /\ pages' = ApplyHighlights(pages, step)
    /\ IF currentStepIndex < Len(simSteps) - 1
       THEN /\ currentStepIndex' = currentStepIndex + 1
            /\ stepTimer' = PlayerEffect(simSteps, currentStepIndex')
            /\ UNCHANGED finishTimer
       ELSE /\ finishTimer' = FinishDelay
            /\ stepTimer' = NoTimer
            /\ UNCHANGED currentStepIndex
    /\ sim' = [sim EXCEPT !.played = @ + 1]
    /\ lastCall' = PlayerCall("step")
    /\ UNCHANGED <<logs, pageCounter, simSteps, clearTimer>>

\* the callback of the finish timeout: " [DONE]" is appended to the message,
\* the simulation is cleared and the timeout that clears the highlights is set
FinishTimerFires ==
    /\ finishTimer = 0
    /\ simMessage' = [simMessage EXCEPT !.done = @ + 1]
    /\ simSteps' = <<>>
    /\ currentStepIndex' = -1
    /\ stepTimer' = PlayerEffect(simSteps', currentStepIndex')
    /\ finishTimer' = NoTimer
    /\ clearTimer' = ClearDelay
    /\ lastCall' = PlayerCall("finish")
    /\ UNCHANGED <<pages, logs, pageCounter, sim>>

\* the callback of the innermost timeout: the highlights and the message are
\* cleared
ClearTimerFires ==
    /\ clearTimer = 0
    /\ pages' = ClearHighlights(pages)
    /\ simMessage' = [text |-> "", done |-> 0]
    /\ clearTimer' = NoTimer
    /\ lastCall' = PlayerCall("clear")
    /\ UNCHANGED <<logs, pageCounter, simSteps, currentStepIndex, stepTimer,
                   finishTimer, sim>>

\* 200 ms pass: no pending timeout is due, and every pending one comes closer
Countdown(timer) == IF timer = NoTimer THEN NoTimer ELSE timer - 1

Tick ==
    /\ {stepTimer, finishTimer, clearTimer} # {NoTimer}
    /\ 0 \notin {stepTimer, finishTimer, clearTimer}
    /\ stepTimer' = Countdown(stepTimer)
    /\ finishTimer' = Countdown(finishTimer)
    /\ clearTimer' = Countdown(clearTimer)
    /\ lastCall' = PlayerCall("tick")
    /\ UNCHANGED <<pages, logs, pageCounter, simSteps, currentStepIndex,
                   simMessage, sim>>

\* the rows 1..MaxUiRow of the table, inserted at any time, at most
\* MaxUiInserts calls on one engine
InsertUi ==
    /\ NumInserts < MaxUiInserts
    /\ \E id \in 1..MaxUiRow : InsertRecord(id, NameOf(id))

\* the query buttons, with the inputs empty or holding an id or name of the
\* table
PressQuery ==
    \E type \in {"BY_ID", "BY_NAME", "BY_NAME_COVERING"} :
    \E typed \in BOOLEAN :
    \E param \in 1..MaxUiRow :
        RunQuery(type, typed, IF type = "BY_ID" THEN param ELSE NameOf(param))

NextUI ==
    \/ InsertUi
    \/ ResetEngine
    \/ PressQuery
    \/ StepTimerFires
    \/ FinishTimerFires
    \/ ClearTimerFires
    \/ Tick

SpecUI == Init /\ [][NextUI]_vars

\* calls whose ids never go down, so that a long run of calls stays small:
\* each call repeats the largest id stored so far or takes the next one
MaxStoredId ==
    LET ids == {id \in 1..MaxLogRow : IdStored(id)}
    IN IF ids = {} THEN 0 ELSE CHOOSE id \in ids : \A other \in ids : other <= id

InsertAscending ==
    /\ NumInserts < MaxLogInserts
    /\ \E id \in 1..MaxLogRow :
          /\ id \in {MaxStoredId, MaxStoredId + 1}
          /\ InsertRecord(id, NameOf(id))

NextLog == InsertAscending \/ ResetEngine

SpecLog == Init /\ [][NextLog]_vars

\* ---------------------------------------------------------------- reading a state
\* the pages of one index, as positions in ps
PagesOf(ps, indexType) == {i \in 1..Len(ps) : ps[i].indexType = indexType}

\* the (id, value) pairs of a page, in page order
Rows(page) ==
    [j \in 1..Len(page.records) |-> <<page.records[j].id, page.records[j].value>>]

\* the ids of a page, in page order
Ids(page) == [j \in 1..Len(page.records) |-> page.records[j].id]

\* the positions of the pages reached from page pageId along nextPageId
RECURSIVE ChainFrom(_, _, _)
ChainFrom(ps, pageId, fuel) ==
    IF pageId = Null \/ fuel = 0 \/ ~(\E i \in 1..Len(ps) : ps[i].id = pageId)
    THEN <<>>
    ELSE LET i == CHOOSE k \in 1..Len(ps) : ps[k].id = pageId
         IN <<i>> \o ChainFrom(ps, ps[i].nextPageId, fuel - 1)

\* the chain of one index read from its head (the page with prevPageId = null)
Chain(ps, indexType) ==
    LET heads == {i \in PagesOf(ps, indexType) : ps[i].prevPageId = Null}
    IN IF heads = {} THEN <<>>
       ELSE ChainFrom(ps, ps[CHOOSE i \in heads : TRUE].id, Len(ps))

RECURSIVE Flatten(_)
Flatten(ss) == IF ss = <<>> THEN <<>> ELSE Head(ss) \o Flatten(Tail(ss))

\* the (id, value) pairs met when reading the chain of one index head to tail
ChainRows(ps, indexType) ==
    LET c == Chain(ps, indexType)
    IN Flatten([k \in 1..Len(c) |-> Rows(ps[c[k]])])

Range(s) == {s[i] : i \in 1..Len(s)}

Count(s, x) == Cardinality({i \in 1..Len(s) : s[i] = x})

\* the (id, value) pairs of the insertRecord calls so far, oldest last: every
\* call logs one "Transaction Committed" entry
Commits(lg) ==
    LET at == {i \in 1..Len(lg) : lg[i].message.text = "Transaction Committed"}
        RECURSIVE Pick(_)
        Pick(i) == IF i > Len(lg) THEN <<>>
                   ELSE IF i \in at
                        THEN <<(<<lg[i].message.a, lg[i].message.b>>)>> \o Pick(i + 1)
                        ELSE Pick(i + 1)
    IN Pick(1)

\* the calls so far had pairwise distinct ids
DistinctIdsSoFar ==
    LET c == Commits(logs)
    IN \A i, j \in 1..Len(c) : i # j => c[i][1] # c[j][1]

\* this step is an insertRecord call
IsInsertStep == logs'[1].message.text = "Transaction Committed"
InsertedId == logs'[1].message.a
InsertedValue == logs'[1].message.b

\* a page that was created by a split in the middle of its chain: its next
\* page is older than it is
SplitInMiddle(indexType) ==
    \E i \in PagesOf(pages, indexType) :
        pages[i].nextPageId # Null /\ pages[i].nextPageId < pages[i].id

\* ---------------------------------------------------------------- claims

\* C1: after every insert of a sequence of inserts with pairwise distinct ids,
\* the PRIMARY chain read from its head along nextPageId yields the ids in
\* strictly ascending order, and every record inserted so far appears exactly
\* once in the traversal.
C1_PrimaryChainAscending ==
    DistinctIdsSoFar =>
        \A rows \in {ChainRows(pages, "PRIMARY")} :
        \A commits \in {Commits(logs)} :
           /\ \A i, j \in 1..Len(rows) : i < j => rows[i][1] < rows[j][1]
           /\ \A r \in Range(commits) : Count(rows, r) = 1
           /\ Len(rows) = Len(commits)

\* C1 witness: seven distinct ids went in and the PRIMARY chain has three
\* pages, one of them created by a split in the middle of the chain
C1_Witness ==
    /\ DistinctIdsSoFar
    /\ Len(Commits(logs)) = 7
    /\ Cardinality(PagesOf(pages, "PRIMARY")) = 3
    /\ SplitInMiddle("PRIMARY")

\* C2: the links of both indexes are consistent: A.nextPageId = B.id exactly
\* when B.prevPageId = A.id, also after a split of a page that is not the tail.
C2_LinksConsistent ==
    \A i, j \in 1..Len(pages) :
        /\ pages[i].nextPageId = pages[j].id => pages[j].prevPageId = pages[i].id
        /\ pages[j].prevPageId = pages[i].id => pages[i].nextPageId = pages[j].id

\* C2 witness: both chains had a page split that was not their tail
C2_Witness == SplitInMiddle("PRIMARY") /\ SplitInMiddle("SECONDARY")

\* C3: no id occurs more than once in the PRIMARY index, and the page the
\* location walk picks for a stored id is the page that stores it.
C3_NoDuplicateId ==
    LET prim == PagesOf(pages, "PRIMARY")
    IN /\ \A i, k \in prim : \A j \in 1..Len(pages[i].records) :
             \A l \in 1..Len(pages[k].records) :
                pages[i].records[j].id = pages[k].records[l].id => (i = k /\ j = l)
       /\ \A i \in prim : \A j \in 1..Len(pages[i].records) :
             FindTarget(pages, FindHead(pages, "PRIMARY"), pages[i].records[j], "PRIMARY")
                = pages[i].id

\* C3 witness: the latest call repeated an id that is the first record of a
\* PRIMARY page behind the head, and was rejected
C3_Witness ==
    /\ Len(logs) >= 2
    /\ logs[2].message.text = "Duplicate Key Error"
    /\ \E i \in PagesOf(pages, "PRIMARY") :
          /\ pages[i].prevPageId # Null
          /\ Len(pages[i].records) > 0
          /\ pages[i].records[1].id = logs[2].message.a

\* the (id, value) pairs stored in one index, page after page in array order
AllRows(ps, indexType) ==
    Flatten([i \in 1..Len(ps) |-> IF ps[i].indexType = indexType THEN Rows(ps[i])
                                                                 ELSE <<>>])

\* the pages of one index without their display flags
Shape(ps, indexType) ==
    {[id |-> ps[i].id, rows |-> Rows(ps[i]), nextPageId |-> ps[i].nextPageId,
      prevPageId |-> ps[i].prevPageId] : i \in PagesOf(ps, indexType)}

LogCount(lg, type) == Cardinality({i \in 1..Len(lg) : lg[i].type = type})

\* C4: a call with an id already present in the PRIMARY index leaves the
\* records and the links of every PRIMARY page as they were, adds an entry of
\* type error to the log, and adds exactly one record (value, id) to the
\* SECONDARY index.
C4_DuplicateRejected ==
    [][(IsInsertStep /\ (\E r \in Range(AllRows(pages, "PRIMARY")) : r[1] = InsertedId))
        => /\ Shape(pages', "PRIMARY") = Shape(pages, "PRIMARY")
           /\ LogCount(logs', "error") = LogCount(logs, "error") + 1
           /\ logs'[2] = [message |-> MsgDuplicate(InsertedId), type |-> "error"]
           /\ \A before \in {AllRows(pages, "SECONDARY")} :
              \A after \in {AllRows(pages', "SECONDARY")} :
              \A row \in {<<InsertedId, InsertedValue>>} :
                 /\ Len(after) = Len(before) + 1
                 /\ Count(after, row) = Count(before, row) + 1
                 /\ \A r \in Range(before) : r # row => Count(after, r) = Count(before, r)
      ]_vars

\* C4 witness: the latest call repeated an id stored on a PRIMARY page behind
\* the head, with a name its row does not have; it was rejected there and the
\* SECONDARY index holds its record
C4_Witness ==
    /\ Len(logs) >= 2
    /\ logs[1].message.text = "Transaction Committed"
    /\ logs[2].message.text = "Duplicate Key Error"
    /\ \E i \in PagesOf(pages, "PRIMARY") :
          /\ pages[i].prevPageId # Null
          /\ \E r \in Range(Rows(pages[i])) :
                r[1] = logs[1].message.a /\ r[2] # logs[1].message.b
    /\ <<logs[1].message.a, logs[1].message.b>> \in Range(AllRows(pages, "SECONDARY"))

\* the order of an index on (id, value) pairs
RowLeq(indexType, r1, r2) ==
    IF indexType = "PRIMARY" THEN r1[1] <= r2[1]
    ELSE r1[2] < r2[2] \/ (r1[2] = r2[2] /\ r1[1] <= r2[1])

\* C5: inserting a record into a page that holds 4 records splits it: of the 5
\* sorted records the first 3 stay and the last 2 move to one new page of the
\* same index type, with new.prevPageId = original.id, original.nextPageId =
\* new.id, new.nextPageId = the original's old nextPageId, and exactly one page
\* added to that index.
C5_SplitOfFullPage ==
    [][IsInsertStep =>
        \A i \in 1..Len(pages) :
            (Len(pages[i].records) = PAGE_CAPACITY /\ Rows(pages'[i]) # Rows(pages[i]))
            => \A type \in {pages[i].indexType} :
               \A new \in {{k \in PagesOf(pages', type) :
                              \A m \in 1..Len(pages) : pages[m].id # pages'[k].id}} :
                  /\ Cardinality(new) = 1
                  /\ Cardinality(PagesOf(pages', type))
                        = Cardinality(PagesOf(pages, type)) + 1
                  /\ pages'[i].id = pages[i].id
                  /\ \A n \in new :
                     \A all \in {Rows(pages'[i]) \o Rows(pages'[n])} :
                     \A row \in {<<InsertedId, InsertedValue>>} :
                        /\ Len(pages'[i].records) = 3
                        /\ Len(pages'[n].records) = 2
                        /\ \A a, b \in 1..Len(all) : a < b => RowLeq(type, all[a], all[b])
                        /\ \A r \in Range(all) :
                              Count(all, r) = Count(Rows(pages[i]), r)
                                              + (IF r = row THEN 1 ELSE 0)
                        /\ pages'[n].prevPageId = pages[i].id
                        /\ pages'[i].nextPageId = pages'[n].id
                        /\ pages'[n].nextPageId = pages[i].nextPageId
      ]_vars

\* C5 witness: the latest call split a page that had a next page, in the
\* PRIMARY index and in the SECONDARY index
C5_Witness ==
    \A type \in {"PRIMARY", "SECONDARY"} :
        \E i, n \in PagesOf(pages, type) :
            /\ pages[i].isSplitting
            /\ pages[i].nextPageId = pages[n].id
            /\ pages[n].id = pageCounter \/ pages[n].id = pageCounter - 1
            /\ pages[n].nextPageId # Null
            /\ Len(pages[i].records) = 3
            /\ Len(pages[n].records) = 2

\* C6: every page of both indexes holds at most PAGE_CAPACITY = 4 records.
C6_AtMostCapacity ==
    \A i \in 1..Len(pages) : Len(pages[i].records) <= PAGE_CAPACITY

\* C6 witness: after a split in each index, a page of each index is full
C6_Witness ==
    \A type \in {"PRIMARY", "SECONDARY"} :
        /\ Cardinality(PagesOf(pages, type)) >= 2
        /\ \E i \in PagesOf(pages, type) : Len(pages[i].records) = PAGE_CAPACITY

\* the keys asked for: every id of the table, one below and one above
QueryKeys == 0..(MaxRow + 1)

\* the names asked for: every name of the list
QueryNames == 1..NumNames

HasType(steps, type) == \E k \in 1..Len(steps) : steps[k].type = type

\* C7: BY_ID on a key stored in the PRIMARY index ends with FOUND_DATA carrying
\* the key; on a key not stored it ends with FINISHED and has no FOUND_DATA.
C7_ById ==
    \A stored \in {{r[1] : r \in Range(AllRows(pages, "PRIMARY"))}} :
    \A key \in QueryKeys :
    \A steps \in {simulateSelectQuery(State, "BY_ID", key)} :
    \A last \in {steps[Len(steps)]} :
        IF key \in stored
        THEN last.type = "FOUND_DATA" /\ last.targetRecordId = key
        ELSE last.type = "FINISHED" /\ ~HasType(steps, "FOUND_DATA")

\* C7 witness: with three PRIMARY pages, one stored key is found on the third
\* page scanned and one absent key ends the walk on the head
C7_Witness ==
    /\ Cardinality(PagesOf(pages, "PRIMARY")) = 3
    /\ \E key \in QueryKeys :
          LET steps == simulateSelectQuery(State, "BY_ID", key)
          IN Len(steps) = 5 /\ steps[5].type = "FOUND_DATA"
    /\ \E key \in QueryKeys :
          LET steps == simulateSelectQuery(State, "BY_ID", key)
          IN Len(steps) = 3 /\ steps[3].type = "FINISHED"

\* the names of the SECONDARY records, reading the chain head to tail
SecondaryNames == LET rows == ChainRows(pages, "SECONDARY")
                  IN [k \in 1..Len(rows) |-> rows[k][2]]

NamePresent(name) == \E r \in Range(AllRows(pages, "SECONDARY")) : r[2] = name

\* the id of the first record with the name, reading the SECONDARY chain
FirstMatchId(name) ==
    LET rows == ChainRows(pages, "SECONDARY")
        k == CHOOSE k \in 1..Len(rows) :
                rows[k][2] = name /\ \A m \in 1..(k - 1) : rows[m][2] # name
    IN rows[k][1]

\* C8: a BY_NAME_COVERING sequence has no SCAN_PAGE step on a PRIMARY page and
\* no JUMP_TO_PK or FOUND_DATA step; when the name is present, FOUND_INDEX_ENTRY
\* is followed by exactly one more step, FINISHED, carrying the primary key of
\* the matched entry.
C8_Covering ==
    \A primaryIds \in {{pages[i].id : i \in PagesOf(pages, "PRIMARY")}} :
    \A present \in {{r[2] : r \in Range(AllRows(pages, "SECONDARY"))}} :
    \A name \in QueryNames :
    \A steps \in {simulateSelectQuery(State, "BY_NAME_COVERING", name)} :
        /\ \A k \in 1..Len(steps) :
              /\ ~(steps[k].type = "SCAN_PAGE" /\ steps[k].targetPageId \in primaryIds)
              /\ steps[k].type \notin {"JUMP_TO_PK", "FOUND_DATA"}
        /\ name \in present =>
              \A pk \in {FirstMatchId(name)} :
                 /\ Len(steps) >= 2
                 /\ steps[Len(steps) - 1].type = "FOUND_INDEX_ENTRY"
                 /\ steps[Len(steps) - 1].targetRecordId = pk
                 /\ steps[Len(steps)].type = "FINISHED"
                 /\ steps[Len(steps)].targetRecordId = pk
                 /\ Cardinality({k \in 1..Len(steps) :
                                    steps[k].type = "FOUND_INDEX_ENTRY"}) = 1

\* C8 witness: a name carried by several records is found on the second
\* SECONDARY page scanned
C8_Witness ==
    \E name \in QueryNames :
        LET steps == simulateSelectQuery(State, "BY_NAME_COVERING", name)
        IN /\ Len(steps) = 5
           /\ steps[4].type = "FOUND_INDEX_ENTRY"
           /\ steps[5].type = "FINISHED"
           /\ Count(SecondaryNames, name) >= 2

\* C9: for a name present in the SECONDARY index, also after calls that
\* repeated an id, the BY_NAME sequence has exactly one JUMP_TO_PK step, a
\* SCAN_PAGE step on a PRIMARY page behind it, and ends with FOUND_DATA
\* carrying the primary key of the FOUND_INDEX_ENTRY and JUMP_TO_PK steps.
C9_ByName ==
    \A primaryIds \in {{pages[i].id : i \in PagesOf(pages, "PRIMARY")}} :
    \A present \in {{r[2] : r \in Range(AllRows(pages, "SECONDARY"))}} :
    \A name \in QueryNames :
        name \in present =>
            \A steps \in {simulateSelectQuery(State, "BY_NAME", name)} :
            \A jumps \in {{k \in 1..Len(steps) : steps[k].type = "JUMP_TO_PK"}} :
            \A last \in {steps[Len(steps)]} :
               /\ Cardinality(jumps) = 1
               /\ \A k \in jumps :
                     /\ \E m \in (k + 1)..Len(steps) :
                           /\ steps[m].type = "SCAN_PAGE"
                           /\ steps[m].targetPageId \in primaryIds
                     /\ k > 1
                     /\ steps[k - 1].type = "FOUND_INDEX_ENTRY"
                     /\ steps[k - 1].targetRecordId = steps[k].targetRecordId
                     /\ last.targetRecordId = steps[k].targetRecordId
               /\ last.type = "FOUND_DATA"

\* C9 witness: a name that only a record of a repeated id carries leads to a
\* row with another name, found on a PRIMARY page behind the head
C9_Witness ==
    \E name \in QueryNames :
        /\ NamePresent(name)
        /\ \A r \in Range(AllRows(pages, "PRIMARY")) : r[2] # name
        /\ LET steps == simulateSelectQuery(State, "BY_NAME", name)
           IN /\ steps[Len(steps)].type = "FOUND_DATA"
              /\ \E i \in PagesOf(pages, "PRIMARY") :
                    /\ pages[i].id = steps[Len(steps)].targetPageId
                    /\ pages[i].prevPageId # Null

\* the run initializeEngine, (1,Alice), (2,Bob), (3,Charlie), (4,Dave), (5,Eve)
ScenarioDone ==
    Commits(logs) = << <<5, 5>>, <<4, 4>>, <<3, 3>>, <<2, 2>>, <<1, 1>> >>

\* C10: the inserts (1,Alice) .. (5,Eve) in this order leave PRIMARY page 1
\* with ids {1,2,3} and the new PRIMARY page, id 3, with ids {4,5}, linked
\* page 1 -> page 3; the page of the SECONDARY split of that call has id 4.
C10_Scenario ==
    ScenarioDone =>
        /\ Len(pages) = 4
        /\ pages[1].id = 1 /\ pages[1].indexType = "PRIMARY"
        /\ Ids(pages[1]) = <<1, 2, 3>>
        /\ pages[3].id = 3 /\ pages[3].indexType = "PRIMARY"
        /\ Ids(pages[3]) = <<4, 5>>
        /\ pages[1].nextPageId = 3 /\ pages[3].prevPageId = 1
        /\ pages[4].id = 4 /\ pages[4].indexType = "SECONDARY"
        /\ pages[4].prevPageId = 2 /\ pages[2].nextPageId = 4
        /\ pageCounter = 4

\* C10 witness: the scenario has run
C10_Witness == ScenarioDone /\ pageCounter = 4

\* the ids of the pages of a state
PageIds(ps) == {ps[i].id : i \in 1..Len(ps)}

\* C11: initializeEngine() returns a state with exactly two pages, page 1 of
\* type PRIMARY and page 2 of type SECONDARY, both without records and with
\* nextPageId = prevPageId = null, pageCounter = 2, and a log of exactly one
\* entry, of type success.
C11_InitialState ==
    lastCall.op = "init" =>
        /\ Len(pages) = 2
        /\ pages[1].id = 1 /\ pages[1].indexType = "PRIMARY"
        /\ pages[2].id = 2 /\ pages[2].indexType = "SECONDARY"
        /\ \A i \in 1..2 :
              /\ pages[i].records = <<>>
              /\ pages[i].nextPageId = Null
              /\ pages[i].prevPageId = Null
        /\ pageCounter = 2
        /\ Len(logs) = 1
        /\ logs[1].type = "success"

\* C11 witness: the state initializeEngine() returned, before any other call
C11_Witness ==
    /\ lastCall.op = "init"
    /\ State = initializeEngine

\* C12, as claimed: the page counter never decreases, also across resets, and
\* no page created by a call carries an id that a page before the call carried.
C12_NeverReusedAcrossResets ==
    [][/\ pageCounter' >= pageCounter
       /\ lastCall'.op = "reset" => PageIds(pages') \cap PageIds(pages) = {}
       /\ lastCall'.op = "insert" =>
             \A k \in (Len(pages) + 1)..Len(pages') : pages'[k].id \notin PageIds(pages)
      ]_vars

\* C12, amended: within one engine the counter never decreases over
\* insertRecord calls, each page a split creates gets the incremented counter
\* as its id, larger than every id in use, and the ids of a state are pairwise
\* distinct; resetEngine sets the counter back to 2 and issues the ids 1 and 2
\* again.
C12_NoReuseBetweenResets ==
    [][/\ lastCall'.op = "insert" =>
             /\ pageCounter' >= pageCounter
             /\ pageCounter' = pageCounter + (Len(pages') - Len(pages))
             /\ \A k \in (Len(pages) + 1)..Len(pages') :
                   /\ pages'[k].id > pageCounter
                   /\ pages'[k].id <= pageCounter'
                   /\ pages'[k].id \notin PageIds(pages)
             /\ \A i, j \in 1..Len(pages') : pages'[i].id = pages'[j].id => i = j
             /\ \A i \in 1..Len(pages) : pages'[i].id = pages[i].id
       /\ lastCall'.op = "reset" =>
             /\ pageCounter' = 2
             /\ PageIds(pages') = {1, 2}
      ]_vars

\* C12 witness: resetEngine was called on an engine whose counter had reached
\* 6, and the counter is 2 again
C12_Witness ==
    /\ lastCall.op = "reset"
    /\ lastCall.pageCounter = 6
    /\ pageCounter = 2

QueryRequests ==
    ({"BY_ID"} \X QueryKeys) \cup ({"BY_NAME", "BY_NAME_COVERING"} \X QueryNames)

\* the positions of the steps that end a query: FINISHED and FOUND_DATA
TerminalSteps(steps) ==
    {k \in 1..Len(steps) : steps[k].type \in {"FINISHED", "FOUND_DATA"}}

\* C15, as claimed: a returned sequence has exactly one terminal step, its last
\* step, and a step of kind FINISHED is never followed by another step.
C15_OneTerminalStep ==
    \A q \in QueryRequests :
    \A steps \in {simulateSelectQuery(State, q[1], q[2])} :
        /\ TerminalSteps(steps) = {Len(steps)}
        /\ \A k \in 1..Len(steps) : steps[k].type = "FINISHED" => k = Len(steps)

\* C15, amended: every returned sequence opens with a step of kind FINISHED
\* that carries the query text (stepId 0, targetPageId 0) and is followed by
\* other steps; among the steps behind it there is exactly one terminal step
\* (FINISHED or FOUND_DATA), and it is the last step of the sequence.
C15_OneTerminalStepBehindQueryStep ==
    \A q \in QueryRequests :
    \A steps \in {simulateSelectQuery(State, q[1], q[2])} :
        /\ Len(steps) >= 2
        /\ steps[1].type = "FINISHED"
        /\ steps[1].stepId = 0
        /\ steps[1].targetPageId = 0
        /\ TerminalSteps(steps) = {1, Len(steps)}
        /\ \A k \in 1..Len(steps) : steps[k].stepId = k - 1

\* C15 witness: in one state the three query kinds end in the four ways a
\* sequence can end: FOUND_DATA (BY_ID and BY_NAME), the covering FINISHED and
\* the not-found FINISHED, each behind the opening FINISHED step
C15_Witness ==
    /\ Cardinality(PagesOf(pages, "PRIMARY")) >= 2
    /\ \E key \in QueryKeys :
          LET steps == simulateSelectQuery(State, "BY_ID", key)
          IN steps[1].type = "FINISHED" /\ steps[Len(steps)].type = "FOUND_DATA"
    /\ \E key \in QueryKeys :
          LET steps == simulateSelectQuery(State, "BY_ID", key)
          IN steps[1].type = "FINISHED" /\ Len(steps) > 1
             /\ steps[Len(steps)].type = "FINISHED"
    /\ \E name \in QueryNames :
          LET steps == simulateSelectQuery(State, "BY_NAME", name)
          IN steps[1].type = "FINISHED" /\ steps[Len(steps)].type = "FOUND_DATA"
    /\ \E name \in QueryNames :
          LET steps == simulateSelectQuery(State, "BY_NAME_COVERING", name)
          IN /\ steps[1].type = "FINISHED"
             /\ steps[Len(steps) - 1].type = "FOUND_INDEX_ENTRY"
             /\ steps[Len(steps)].type = "FINISHED"

\* the position of the last SCAN_PAGE step of a sequence, 0 when it has none
LastScan(steps) ==
    IF \E k \in 1..Len(steps) : steps[k].type = "SCAN_PAGE"
    THEN CHOOSE k \in 1..Len(steps) :
            /\ steps[k].type = "SCAN_PAGE"
            /\ \A m \in (k + 1)..Len(steps) : steps[m].type # "SCAN_PAGE"
    ELSE 0

\* the BY_ID walk for key stopped at the range check: the last page scanned
\* has a next page, does not hold the key, and its largest id is not less than
\* the key
RangeBreak(key, steps, lastScan) ==
    /\ lastScan # 0
    /\ \E i \in PagesOf(pages, "PRIMARY") :
          /\ pages[i].id = steps[lastScan].targetPageId
          /\ pages[i].nextPageId # Null
          /\ \A j \in 1..Len(pages[i].records) : pages[i].records[j].id # key
          /\ Len(pages[i].records) > 0
          /\ pages[i].records[Len(pages[i].records)].id >= key

IsNotFoundStep(step) ==
    step.type = "FINISHED" /\ step.message = "Record not found in Primary Index"

\* C16, as claimed: when the BY_ID walk stops at the range check on a page that
\* has a next page, the sequence has no not-found step behind that page's
\* SCAN_PAGE step.
C16_SilentStop ==
    \A key \in QueryKeys :
    \A steps \in {simulateSelectQuery(State, "BY_ID", key)} :
    \A lastScan \in {LastScan(steps)} :
        RangeBreak(key, steps, lastScan) =>
            \A k \in (lastScan + 1)..Len(steps) : ~IsNotFoundStep(steps[k])

\* C16, amended: when the BY_ID walk stops at the range check on a page that
\* has a next page, no further page is scanned and the sequence ends with the
\* not-found FINISHED step (targetPageId 0) right behind that page's SCAN_PAGE
\* step.
C16_BreakReportsNotFound ==
    \A key \in QueryKeys :
    \A steps \in {simulateSelectQuery(State, "BY_ID", key)} :
    \A lastScan \in {LastScan(steps)} :
        RangeBreak(key, steps, lastScan) =>
            /\ Len(steps) = lastScan + 1
            /\ IsNotFoundStep(steps[Len(steps)])
            /\ steps[Len(steps)].targetPageId = 0
            /\ ~HasType(steps, "FOUND_DATA")

\* C16 witness: a key that is not stored lies between the ids of the head of
\* the PRIMARY chain, which has a next page, and the walk stops on the head
C16_Witness ==
    /\ Cardinality(PagesOf(pages, "PRIMARY")) >= 2
    /\ \E key \in 1..MaxQueryRow :
          LET steps == simulateSelectQuery(State, "BY_ID", key)
          IN /\ RangeBreak(key, steps, LastScan(steps))
             /\ LastScan(steps) = 2
             /\ \E i \in PagesOf(pages, "PRIMARY") :
                   pages[i].prevPageId = Null /\ pages[i].records[1].id < key

\* C17, as claimed: every split of an insertRecord call, PRIMARY or SECONDARY,
\* adds to the returned log one warning entry and one success entry that name
\* the original and the new page, the warning older than the success and both
\* older than the commit entry of the call.
C17_SplitsLogged ==
    [][lastCall'.op = "insert" =>
          \A k \in (Len(pages) + 1)..Len(pages') :
          \A type \in {pages'[k].indexType} :
          \A orig \in {pages'[k].prevPageId} :
          \A added \in {Len(logs') - Len(logs)} :
             \E w, s \in 2..added :
                /\ s < w
                /\ logs'[w] = [message |-> MsgSplitting(type, orig), type |-> "warning"]
                /\ logs'[s] = [message |-> MsgSplitComplete(type, orig, pages'[k].id),
                               type |-> "success"]
                /\ logs'[1].message.text = "Transaction Committed"
      ]_vars

\* C18: every insertRecord call, also one whose id is rejected as a duplicate,
\* adds exactly one entry of type info, which records the committed (id,
\* value) and is the first (most recent) entry of the returned log.
C18_CommitEntry ==
    [][lastCall'.op = "insert" =>
          /\ logs'[1] = [message |-> MsgCommitted(lastCall'.id, lastCall'.value),
                         type |-> "info"]
          /\ \E n \in 1..5 :
                /\ n <= Len(logs')
                /\ Len(logs') - n <= Len(logs)
                /\ SubSeq(logs', n + 1, Len(logs')) = SubSeq(logs, 1, Len(logs') - n)
                /\ LogCount(SubSeq(logs', 1, n), "info") = 1
          /\ Len(logs') <= LogKeep =>
                LogCount(logs', "info") = LogCount(logs, "info") + 1
      ]_vars

\* C18 witness: the latest call repeated a stored id with another name and was
\* rejected; its commit entry is the first entry, in front of the error entry
C18_Witness ==
    /\ lastCall.op = "insert"
    /\ Len(logs) >= 2
    /\ logs[1] = [message |-> MsgCommitted(lastCall.id, lastCall.value), type |-> "info"]
    /\ logs[2] = [message |-> MsgDuplicate(lastCall.id), type |-> "error"]
    /\ \E r \in Range(AllRows(pages, "PRIMARY")) :
          r[1] = lastCall.id /\ r[2] # lastCall.value

\* C19: the log holds at most 50 entries, most recent first: the entries of a
\* call are placed at the front, the older entries keep their relative order
\* behind them, and when the log would grow beyond 50 the oldest (last)
\* entries are discarded.
C19_LogCapped ==
    [][/\ Len(logs') <= 50
       /\ lastCall'.op = "insert" =>
             \E n \in 1..5 :
                /\ Len(logs') = Min(Len(logs) + n, 50)
                /\ SubSeq(logs', n + 1, Len(logs')) = SubSeq(logs, 1, Len(logs') - n)
                /\ logs'[1].message.text = "Transaction Committed"
                /\ \A k \in 2..n : logs'[k].message.text # "Transaction Committed"
      ]_vars

\* C19 witness: the log holds 50 entries and its oldest entry, the one written
\* by initializeEngine, has been discarded
C19_Witness ==
    /\ Len(logs) = 50
    /\ lastCall.op = "insert"
    /\ \A k \in 1..Len(logs) : logs[k].message.text # "Engine Initialized"

\* C20: each index has exactly one head (prevPageId = null) and exactly one
\* tail (nextPageId = null), following nextPageId from the head visits every
\* page of the index exactly once, and no link leads to a page of the other
\* index.
C20_OneChainPerIndex ==
    \A type \in {"PRIMARY", "SECONDARY"} :
    \A mine \in {PagesOf(pages, type)} :
    \A chain \in {Chain(pages, type)} :
        /\ Cardinality({i \in mine : pages[i].prevPageId = Null}) = 1
        /\ Cardinality({i \in mine : pages[i].nextPageId = Null}) = 1
        /\ Len(chain) = Cardinality(mine)
        /\ Range(chain) = mine
        /\ pages[chain[Len(chain)]].nextPageId = Null
        /\ \A i \in mine :
              /\ pages[i].nextPageId # Null =>
                    \E j \in mine : pages[j].id = pages[i].nextPageId
              /\ pages[i].prevPageId # Null =>
                    \E j \in mine : pages[j].id = pages[i].prevPageId
              /\ \A j \in 1..Len(pages) :
                    pages[j].id \in {pages[i].nextPageId, pages[i].prevPageId} => j \in mine

\* C20 witness: both chains have three pages and neither is in the order in
\* which its pages were created
C20_Witness ==
    \A type \in {"PRIMARY", "SECONDARY"} :
        /\ Len(Chain(pages, type)) = 3
        /\ \E k \in 1..2 : Chain(pages, type)[k] > Chain(pages, type)[k + 1]

\* s is non-decreasing under the order of the index
NonDecreasing(indexType, s) ==
    \A k \in 1..(Len(s) - 1) : RowLeq(indexType, s[k], s[k + 1])

\* C21: after any inserts, also inserts that repeat a value or a whole (id,
\* value) pair, the records of every SECONDARY page are sorted ascending by
\* (value, then id) and the SECONDARY chain read head to tail is non-decreasing
\* under that order: the last record of a page never compares greater than
\* the first record of the next page.
C21_SecondaryOrdered ==
    /\ \A i \in PagesOf(pages, "SECONDARY") : NonDecreasing("SECONDARY", Rows(pages[i]))
    /\ \A chain \in {Chain(pages, "SECONDARY")} :
          /\ Range(chain) = PagesOf(pages, "SECONDARY")
          /\ NonDecreasing("SECONDARY", Flatten([k \in 1..Len(chain) |-> Rows(pages[chain[k]])]))
          /\ \A k \in 1..(Len(chain) - 1) :
                \A here \in {Rows(pages[chain[k]])} :
                \A next \in {Rows(pages[chain[k + 1]])} :
                   (here # <<>> /\ next # <<>>)
                      => RowLeq("SECONDARY", here[Len(here)], next[1])

\* C21 witness: the SECONDARY chain has three pages, one (id, value) pair is
\* stored more than once, one value is carried by two ids, and a page ends
\* with a record equal to the first record of its next page
C21_Witness ==
    \A chain \in {Chain(pages, "SECONDARY")} :
    \A rows \in {ChainRows(pages, "SECONDARY")} :
        /\ Len(chain) = 3
        /\ \E r \in Range(rows) : Count(rows, r) >= 2
        /\ \E r1, r2 \in Range(rows) : r1[2] = r2[2] /\ r1[1] # r2[1]
        /\ \E k \in 1..2 :
              Rows(pages[chain[k]])[Len(pages[chain[k]].records)]
                 = Rows(pages[chain[k + 1]])[1]

\* the positions of the SCAN_PAGE steps of a sequence
Scans(steps) == {k \in 1..Len(steps) : steps[k].type = "SCAN_PAGE"}

\* the position of the JUMP_TO_PK step, 0 when the sequence has none
JumpAt(steps) ==
    IF \E k \in 1..Len(steps) : steps[k].type = "JUMP_TO_PK"
    THEN CHOOSE k \in 1..Len(steps) : steps[k].type = "JUMP_TO_PK"
    ELSE 0

\* C22: for every reachable state, query kind and parameter, the query returns
\* a finite sequence in which no page is scanned twice within a chain walk
\* (the walk of BY_ID; for the name queries the walk before and the walk behind
\* JUMP_TO_PK), the number of SCAN_PAGE steps is at most the number of pages of
\* both indexes, and every step targets an existing page or none.
C22_BoundedScans ==
    \A ids \in {PageIds(pages)} :
    \A q \in QueryRequests :
    \A steps \in {simulateSelectQuery(State, q[1], q[2])} :
    \A scans \in {Scans(steps)} :
    \A jump \in {JumpAt(steps)} :
        /\ Cardinality(scans) <= Cardinality(PagesOf(pages, "SECONDARY"))
                                 + Cardinality(PagesOf(pages, "PRIMARY"))
        /\ Len(steps) <= Len(pages) + 4
        /\ \A k, m \in scans :
              (k < m /\ (jump = 0 \/ m < jump \/ k > jump))
                 => steps[k].targetPageId # steps[m].targetPageId
        /\ \A k \in 1..Len(steps) : steps[k].targetPageId \in ids \cup {0}
        /\ \A k \in scans : steps[k].targetPageId \in ids

\* C22 witness: a BY_NAME sequence scans both SECONDARY pages and then both
\* PRIMARY pages: as many SCAN_PAGE steps as there are pages
C22_Witness ==
    /\ Cardinality(PagesOf(pages, "PRIMARY")) = 2
    /\ Cardinality(PagesOf(pages, "SECONDARY")) = 2
    /\ \E name \in QueryNames :
          Cardinality(Scans(simulateSelectQuery(State, "BY_NAME", name))) = 4

\* C23: for BY_NAME and BY_NAME_COVERING with a name that no SECONDARY record
\* carries, the sequence scans every SECONDARY page once, in chain order from
\* the head, and ends with the FINISHED not-found step; it has no
\* FOUND_INDEX_ENTRY, JUMP_TO_PK or FOUND_DATA step and scans no PRIMARY page.
C23_NameNotFound ==
    \A chain \in {Chain(pages, "SECONDARY")} :
    \A present \in {{r[2] : r \in Range(AllRows(pages, "SECONDARY"))}} :
    \A name \in QueryNames \ present :
    \A type \in {"BY_NAME", "BY_NAME_COVERING"} :
    \A steps \in {simulateSelectQuery(State, type, name)} :
        /\ Range(chain) = PagesOf(pages, "SECONDARY")
        /\ Len(steps) = Len(chain) + 2
        /\ \A k \in 1..Len(chain) :
              /\ steps[k + 1].type = "SCAN_PAGE"
              /\ steps[k + 1].targetPageId = pages[chain[k]].id
        /\ steps[Len(steps)].type = "FINISHED"
        /\ steps[Len(steps)].message = "Name not found in Index"
        /\ \A k \in 1..Len(steps) :
              steps[k].type \notin {"FOUND_INDEX_ENTRY", "JUMP_TO_PK", "FOUND_DATA"}

\* C23 witness: the SECONDARY chain has two pages with records and a name of
\* the list is carried by none of them
C23_Witness ==
    /\ Len(Chain(pages, "SECONDARY")) = 2
    /\ \E name \in QueryNames :
          /\ ~NamePresent(name)
          /\ \A type \in {"BY_NAME", "BY_NAME_COVERING"} :
                LET steps == simulateSelectQuery(State, type, name)
                IN Len(steps) = 4 /\ steps[4].type = "FINISHED"

\* C25: the projection built for the explanation service maps every page to an
\* object with only page_id, records (the ids of the page's records, in page
\* order), next_page, prev_page and status; status is FULL exactly when the
\* page holds at least 4 records and HAS_SPACE otherwise; none of the display
\* flags is carried.
C25_SnapshotProjection ==
    \A view \in {simplePages(State)} :
        /\ Len(view) = Len(pages)
        /\ \A i \in 1..Len(pages) :
              /\ DOMAIN view[i] = {"page_id", "records", "next_page", "prev_page", "status"}
              /\ view[i].page_id = pages[i].id
              /\ view[i].records = Ids(pages[i])
              /\ view[i].next_page = pages[i].nextPageId
              /\ view[i].prev_page = pages[i].prevPageId
              /\ view[i].status \in {"FULL", "HAS_SPACE"}
              /\ view[i].status = "FULL" <=> Len(pages[i].records) >= PAGE_CAPACITY

\* C25 witness: the state has a page with exactly 4 records and a page with
\* fewer, linked to each other, and a page and a record with a display flag set
C25_Witness ==
    /\ \E i, j \in 1..Len(pages) :
          /\ Len(pages[i].records) = PAGE_CAPACITY
          /\ Len(pages[j].records) < PAGE_CAPACITY
          /\ pages[i].nextPageId = pages[j].id
          /\ simplePages(State)[i].status = "FULL"
          /\ simplePages(State)[j].status = "HAS_SPACE"
    /\ \E i \in 1..Len(pages) :
          /\ pages[i].isDirty
          /\ \E j \in 1..Len(pages[i].records) : pages[i].records[j].isNew

\* the page of the PRIMARY chain at which the BY_ID walk for key ends: the
\* first page that holds the key, is the tail, or has a largest id that is not
\* less than the key (a page without records ends the walk too)
ByIdStop(chain, key) ==
    CHOOSE n \in 1..Len(chain) :
       LET Ends(k) == \/ key \in Range(Ids(pages[chain[k]]))
                      \/ pages[chain[k]].nextPageId = Null
                      \/ pages[chain[k]].records = <<>>
                      \/ pages[chain[k]].records[Len(pages[chain[k]].records)].id >= key
       IN Ends(n) /\ \A k \in 1..(n - 1) : ~Ends(k)

\* C27: the SCAN_PAGE steps of BY_ID are PRIMARY pages in chain order from the
\* head, and the walk advances only from a page that does not hold the key,
\* has a next page and has a largest id less than the key: no page behind the
\* first page whose largest id is greater than or equal to the key is scanned.
C27_ByIdWalk ==
    \A chain \in {Chain(pages, "PRIMARY")} :
    \A key \in QueryKeys :
    \A steps \in {simulateSelectQuery(State, "BY_ID", key)} :
    \A stop \in {ByIdStop(chain, key)} :
        /\ Cardinality(Scans(steps)) = stop
        /\ \A k \in 1..stop :
              /\ steps[k + 1].type = "SCAN_PAGE"
              /\ steps[k + 1].targetPageId = pages[chain[k]].id
              /\ pages[chain[k]].indexType = "PRIMARY"

\* C27 witness: for one key the walk goes on from the head to the second page,
\* for another it stops on the head although the head has a next page
C27_Witness ==
    /\ Len(Chain(pages, "PRIMARY")) >= 2
    /\ \E key \in QueryKeys :
          Cardinality(Scans(simulateSelectQuery(State, "BY_ID", key))) = 2
    /\ \E key \in 1..MaxQueryRow :
          /\ ~IdStored(key)
          /\ Cardinality(Scans(simulateSelectQuery(State, "BY_ID", key))) = 1

\* C28: in a BY_NAME sequence the SCAN_PAGE steps behind JUMP_TO_PK are the
\* PRIMARY pages from the chain head up to and including the page that stores
\* the located primary key, in chain order and each once; the FOUND_DATA step
\* targets the last page scanned.
C28_TableLookupWalk ==
    \A chain \in {Chain(pages, "PRIMARY")} :
    \A present \in {{r[2] : r \in Range(AllRows(pages, "SECONDARY"))}} :
    \A name \in QueryNames \cap present :
    \A steps \in {simulateSelectQuery(State, "BY_NAME", name)} :
    \A jump \in {JumpAt(steps)} :
        /\ jump # 0
        /\ \E n \in 1..Len(chain) :
              /\ steps[jump].targetRecordId \in Range(Ids(pages[chain[n]]))
              /\ Len(steps) = jump + n + 1
              /\ \A k \in 1..n :
                    /\ steps[jump + k].type = "SCAN_PAGE"
                    /\ steps[jump + k].targetPageId = pages[chain[k]].id
              /\ steps[Len(steps)].type = "FOUND_DATA"
              /\ steps[Len(steps)].targetPageId = pages[chain[n]].id
              /\ steps[Len(steps)].targetRecordId = steps[jump].targetRecordId

\* C28 witness: the name leads to a primary key stored on the second PRIMARY
\* page, and the lookup scans the head and that page
C28_Witness ==
    /\ Len(Chain(pages, "PRIMARY")) = 2
    /\ \E name \in QueryNames :
          /\ NamePresent(name)
          /\ LET steps == simulateSelectQuery(State, "BY_NAME", name)
             IN /\ JumpAt(steps) # 0
                /\ Len(steps) = JumpAt(steps) + 3
                /\ steps[Len(steps)].type = "FOUND_DATA"
                /\ steps[Len(steps)].targetPageId
                      = pages[Chain(pages, "PRIMARY")[2]].id

\* C24: a call of insertRecord deletes nothing: every page of the state before
\* the call is a page of the state after it, with the same id and indexType,
\* and every record stored in an index before the call is stored in that index
\* after it at least as many times, on whatever page.
C24_NothingDeleted ==
    [][lastCall'.op = "insert" =>
        /\ \A i \in 1..Len(pages) :
              \E j \in 1..Len(pages') :
                 /\ pages'[j].id = pages[i].id
                 /\ pages'[j].indexType = pages[i].indexType
        /\ \A indexType \in {"PRIMARY", "SECONDARY"} :
           \A before \in {AllRows(pages, indexType)} :
           \A after \in {AllRows(pages', indexType)} :
              /\ Len(after) >= Len(before)
              /\ \A r \in Range(before) : Count(after, r) >= Count(before, r)
      ]_vars

\* C24 witness: the latest call split a page: a page made by it holds records
\* that were stored before the call
C24_Witness ==
    /\ lastCall.op = "insert"
    /\ pageCounter > lastCall.pageCounter
    /\ Len(pages) >= 4
    /\ \E i \in 1..Len(pages) :
          /\ pages[i].id > lastCall.pageCounter
          /\ pages[i].prevPageId # Null
          /\ \E j \in 1..Len(pages[i].records) : ~pages[i].records[j].isNew

\* the first (id, value) pair of every page of the chain, <<>> for a page
\* without records
FirstRows(chain) ==
    [k \in 1..Len(chain) |->
        IF pages[chain[k]].records = <<>> THEN <<>>
        ELSE <<pages[chain[k]].records[1].id, pages[chain[k]].records[1].value>>]

\* the position in the chain at which the location walk for row ends: the
\* first page that is the tail, or whose next page has records of which the
\* first is strictly greater than row
WalkStop(chain, firsts, indexType, row) ==
    CHOOSE n \in 1..Len(chain) :
       LET Ends(k) == \/ pages[chain[k]].nextPageId = Null
                      \/ /\ k < Len(chain)
                         /\ firsts[k + 1] # <<>>
                         /\ ~RowLeq(indexType, firsts[k + 1], row)
       IN Ends(n) /\ \A k \in 1..(n - 1) : ~Ends(k)

\* the rows the location walk is asked about: the rows of the table and rows
\* that are in no index
WalkRows == (0..(MaxDupRow + 1)) \X (1..(DupName(MaxDupRow) + 1))

\* r1 and r2 compare equal under the order of the index
RowEq(indexType, r1, r2) == RowLeq(indexType, r1, r2) /\ RowLeq(indexType, r2, r1)

\* C26: for both indexes and every new record, the location walk picks the
\* first page from the chain head that is the tail or whose next page is
\* non-empty with a first record strictly greater than the new record; a new
\* record that compares equal to the first record of a page behind the head
\* gets that page or a later one as its target, never a page before it.
C26_LocationWalk ==
    \A indexType \in {"PRIMARY", "SECONDARY"} :
    \A chain \in {Chain(pages, indexType)} :
    \A head \in {FindHead(pages, indexType)} :
    \A firsts \in {FirstRows(chain)} :
    \A row \in WalkRows :
    \A stop \in {WalkStop(chain, firsts, indexType, row)} :
        /\ FindTarget(pages, head, NewRecord(row[1], row[2]), indexType)
              = pages[chain[stop]].id
        /\ \A k \in 2..Len(chain) :
              (firsts[k] # <<>> /\ RowEq(indexType, firsts[k], row)) => stop >= k

\* C26 witness: the latest call carried a pair equal to the first record of a
\* SECONDARY page behind the head, and its record is on that page behind the
\* record it equals
C26_Witness ==
    /\ lastCall.op = "insert"
    /\ \E i \in PagesOf(pages, "SECONDARY") :
          /\ pages[i].prevPageId # Null
          /\ Len(pages[i].records) >= 2
          /\ Rows(pages[i])[1] = <<lastCall.id, lastCall.value>>
          /\ ~pages[i].records[1].isNew
          /\ \E j \in 2..Len(pages[i].records) :
                /\ pages[i].records[j].isNew
                /\ Rows(pages[i])[j] = <<lastCall.id, lastCall.value>>

\* C29: in every state pageCounter is the number of pages and the page ids are
\* exactly 1..pageCounter, each once; a call of insertRecord raises pageCounter
\* by the number of pages it splits, which is 0, 1 or 2, and when it splits a
\* page of each index the new PRIMARY page has the smaller id.
C29_CounterCountsPages ==
    [][/\ pageCounter = Len(pages)
       /\ PageIds(pages) = 1..pageCounter
       /\ pageCounter' = Len(pages')
       /\ PageIds(pages') = 1..pageCounter'
       /\ lastCall'.op = "insert" =>
             \A splits \in {Cardinality({i \in 1..Len(pages') : pages'[i].isSplitting})} :
                /\ splits \in 0..2
                /\ pageCounter' = pageCounter + splits
                /\ Len(pages') = Len(pages) + splits
                /\ splits = 2 =>
                      \E i, j \in 1..Len(pages') :
                         /\ pages'[i].id = pageCounter + 1
                         /\ pages'[i].indexType = "PRIMARY"
                         /\ pages'[j].id = pageCounter + 2
                         /\ pages'[j].indexType = "SECONDARY"
      ]_vars

\* C29 witness: the latest call split a page of each index; the new PRIMARY
\* page has id 3 and the new SECONDARY page id 4
C29_Witness ==
    /\ lastCall.op = "insert"
    /\ pageCounter = lastCall.pageCounter + 2
    /\ Cardinality({i \in 1..Len(pages) : pages[i].isSplitting}) = 2
    /\ \E i, j \in 1..Len(pages) :
          /\ pages[i].id = 3 /\ pages[i].indexType = "PRIMARY"
          /\ pages[j].id = 4 /\ pages[j].indexType = "SECONDARY"

\* C30: after every call, whatever ids it repeats, every record of the
\* SECONDARY index carries an id that is stored in the PRIMARY index, and the
\* table lookup of BY_NAME for that id ends with FOUND_DATA on a PRIMARY page
\* that stores it: the lookup does not run off the PRIMARY tail.
C30_SecondaryIdsInPrimary ==
    [][\A primaryIds \in {{r[1] : r \in Range(AllRows(pages', "PRIMARY"))}} :
       \A head \in {ChainHead(pages', "PRIMARY")} :
       \A pk \in {r[1] : r \in Range(AllRows(pages', "SECONDARY"))} :
          /\ pk \in primaryIds
          /\ \A steps \in {TableLookup(pages', head, pk, <<>>)} :
                /\ steps[Len(steps)].type = "FOUND_DATA"
                /\ steps[Len(steps)].targetRecordId = pk
                /\ \E i \in PagesOf(pages', "PRIMARY") :
                      /\ pages'[i].id = steps[Len(steps)].targetPageId
                      /\ pk \in Range(Ids(pages'[i]))
      ]_vars

\* C30 witness: the latest call repeated an id stored on the second PRIMARY
\* page, with another name; the BY_NAME query for that name walks the PRIMARY
\* chain to that page
C30_Witness ==
    /\ lastCall.op = "insert"
    /\ logs[2].message.text = "Duplicate Key Error"
    /\ Len(Chain(pages, "PRIMARY")) = 2
    /\ lastCall.id \in Range(Ids(pages[Chain(pages, "PRIMARY")[2]]))
    /\ LET steps == simulateSelectQuery(State, "BY_NAME", lastCall.value)
       IN /\ steps[Len(steps)].type = "FOUND_DATA"
          /\ steps[Len(steps)].targetRecordId = lastCall.id
          /\ steps[Len(steps)].targetPageId = pages[Chain(pages, "PRIMARY")[2]].id

\* C31: in a run of calls with pairwise distinct ids, after each call of
\* insertRecord both indexes hold every pair they held before once, and the
\* pair of the call once, and nothing else: the pairs stored in the SECONDARY
\* index are the pairs stored in the PRIMARY index, none of them twice.
C31_SameDataInBothIndexes ==
    [][lastCall'.op = "insert" =>
        \A row \in {<<lastCall'.id, lastCall'.value>>} :
        \A primary \in {AllRows(pages', "PRIMARY")} :
        \A secondary \in {AllRows(pages', "SECONDARY")} :
           /\ \A indexType \in {"PRIMARY", "SECONDARY"} :
              \A before \in {AllRows(pages, indexType)} :
              \A after \in {AllRows(pages', indexType)} :
                 /\ Len(after) = Len(before) + 1
                 /\ Count(before, row) = 0
                 /\ Count(after, row) = 1
                 /\ \A r \in Range(before) : Count(after, r) = Count(before, r)
           /\ Range(secondary) = Range(primary)
           /\ Len(secondary) = Len(primary)
           /\ Cardinality(Range(secondary)) = Len(secondary)
           /\ Range(AllRows(pages, "SECONDARY")) = Range(AllRows(pages, "PRIMARY"))
      ]_vars

\* C31 witness: after the latest call each index has two pages and the same
\* five or more pairs, the pair of the call among them
C31_Witness ==
    /\ lastCall.op = "insert"
    /\ Cardinality(PagesOf(pages, "PRIMARY")) = 2
    /\ Cardinality(PagesOf(pages, "SECONDARY")) = 2
    /\ Len(AllRows(pages, "PRIMARY")) >= PAGE_CAPACITY + 1
    /\ <<lastCall.id, lastCall.value>> \in Range(AllRows(pages, "SECONDARY"))
    /\ Range(AllRows(pages, "SECONDARY")) = Range(AllRows(pages, "PRIMARY"))

\* the ids of the SECONDARY records that carry name
IdsWithName(name) == {r[1] : r \in {q \in Range(AllRows(pages, "SECONDARY")) : q[2] = name}}

\* the steps of a sequence that have the given type, by position
StepsOfType(steps, type) == {k \in 1..Len(steps) : steps[k].type = type}

\* C32: when records with different ids carry the queried name, BY_NAME and
\* BY_NAME_COVERING have exactly one FOUND_INDEX_ENTRY step, and it reports
\* the smallest of those ids, on the first page of the SECONDARY chain that
\* holds a record with the name.
C32_FirstMatchIsSmallestId ==
    \A chain \in {Chain(pages, "SECONDARY")} :
    \A name \in QueryNames :
    \A ids \in {IdsWithName(name)} :
       Cardinality(ids) >= 2 =>
          \A type \in {"BY_NAME", "BY_NAME_COVERING"} :
          \A steps \in {simulateSelectQuery(State, type, name)} :
          \A found \in {StepsOfType(steps, "FOUND_INDEX_ENTRY")} :
             /\ Cardinality(found) = 1
             /\ \A k \in found :
                   /\ steps[k].targetRecordId \in ids
                   /\ \A id \in ids : steps[k].targetRecordId <= id
                   /\ \E p \in 1..Len(chain) :
                         /\ pages[chain[p]].id = steps[k].targetPageId
                         /\ \E r \in Range(Rows(pages[chain[p]])) : r[2] = name
                         /\ \A q \in 1..(p - 1) :
                               \A r \in Range(Rows(pages[chain[q]])) : r[2] # name

\* C32 witness: a name is carried by two ids, the larger of which was stored
\* first, with records on the head and on the next page of the SECONDARY
\* chain, and the query reports the smaller id
C32_Witness ==
    /\ Len(Chain(pages, "SECONDARY")) >= 2
    /\ lastCall.op = "insert"
    /\ \E name \in QueryNames :
          /\ Cardinality(IdsWithName(name)) = 2
          /\ lastCall.value = name
          /\ \A id \in IdsWithName(name) : lastCall.id <= id
          /\ \A p \in {1, 2} :
                \E r \in Range(Rows(pages[Chain(pages, "SECONDARY")[p]])) : r[2] = name
          /\ \A type \in {"BY_NAME", "BY_NAME_COVERING"} :
                LET steps == simulateSelectQuery(State, type, name)
                IN \E k \in 1..Len(steps) :
                      /\ steps[k].type = "FOUND_INDEX_ENTRY"
                      /\ steps[k].targetRecordId = lastCall.id

\* C33: a step applied by the player is the step of the running simulation
\* whose stepId is the number of steps applied so far, and nothing but an
\* insert, a reset or another query clears a simulation before all of its
\* steps have been applied: a timeout left over from an earlier simulation
\* does not clear it.
C33_PlaysEveryStep ==
    [][/\ lastCall'.op = "step" =>
             /\ currentStepIndex = sim.played
             /\ simSteps[currentStepIndex + 1].stepId = sim.played
             /\ sim'.played <= sim.length
       /\ (simSteps # <<>> /\ simSteps' = <<>> /\ lastCall'.op \notin {"insert", "reset"})
             => sim.played = Len(simSteps)
      ]_vars

====
